---- MODULE Spec2Model ----
(***************************************************************************)
(* SoundCraft: the client-side audio pipeline.                             *)
(*                                                                         *)
(* Ten state machines share this module.                                   *)
(*   Spec       the useAudioAnalyzer hook (first version, the one App.tsx  *)
(*              is written against) together with App.tsx's handlers:      *)
(*              every handler is split at its await points, so the         *)
(*              interleavings of uploads, effect requests and resets are   *)
(*              the ones the browser's event loop can produce.             *)
(*   SpecPitch  AudioProcessor.pitchShift, one step per hop of its loop.   *)
(*   SpecNoise  AudioProcessor.reduceNoise on small concrete buffers.      *)
(*   SpecVolume AudioProcessor.adjustVolume on small concrete buffers.     *)
(*   SpecAnalysis  getAmplitude, applyHannWindow, analyzeFrequency,        *)
(*              detectPitch and calculateClarity on one buffer.            *)
(*   SpecPhoneme   the three phoneme classifiers, one step per frame.      *)
(*   SpecSentiment the sentiment producers: predictSentiment, one step per *)
(*              emotion of its catalog, detectEmotion behind               *)
(*              analyzeSentiment, and the first hook's constant.           *)
(*   SpecEffects   applyEffects of both hooks, one step per stage, up to   *)
(*              the WAV blob it stores.                                    *)
(*   SpecHeap   the arrays the AudioProcessor methods read and allocate.   *)
(*   SpecPlayback  togglePlayback under clicks, decode completions and     *)
(*              'ended' events.                                            *)
(*                                                                         *)
(* Samples are fixed-point numbers in thousandths (1000 is 1.0).           *)
(***************************************************************************)
EXTENDS Integers, Sequences, FiniteSets, TLC

NULL == "null"

\* The null of a state variable that otherwise holds a buffer or a blob.
NONE == [none |-> TRUE]

(***************************************************************************)
(* Bounds of the model.                                                    *)
(***************************************************************************)
\* Handler invocations (uploads, effect requests, analyses, resets) per run.
MaxTasks == 3

\* The uploaded files.
Files == {"A", "B"}

(***************************************************************************)
(* App.tsx: slider state.  Volume is in tenths (10 is gain 1.0).           *)
(***************************************************************************)
DefaultNoiseReduction == 50
DefaultPitchShift == 0
DefaultVolume == 10

\* The slider positions the model explores.
NoiseValues == {0, DefaultNoiseReduction}
PitchValues == {-1, DefaultPitchShift}
VolumeValues == {DefaultVolume, 20}

VARIABLES
    \* useAudioAnalyzer's state
    audioFile,        \* File | null
    audioContext,     \* audioContextRef.current has been created
    waveformData,     \* Float32Array | null
    spectrumData,     \* {frequencies, magnitudes} | null
    processedAudio,   \* Blob | null
    \* App's state
    noiseReduction, pitchShift, volume,
    error,            \* the user-visible error message
    analysisResults,  \* the sentiment label of the last analysis, or NULL
    isAnalyzing,
    \* the asynchronous calls, in invocation order; a finished call stays
    \* in the sequence with pc = "done"
    tasks,
    \* history: the last request that decides what processedAudio should be
    lastRequest

hookVars == <<audioFile, audioContext, waveformData, spectrumData,
              processedAudio, noiseReduction, pitchShift, volume, error,
              analysisResults, isAnalyzing, tasks, lastRequest>>

(***************************************************************************)
(* What a decode of file f yields, and the spectrum derived from it.       *)
(***************************************************************************)
ChannelData(f) == [pcm |-> f]
AnalysisOf(f) == [spectrumOf |-> f]

InitHook ==
    /\ audioFile = NULL
    /\ audioContext = FALSE
    /\ waveformData = NONE
    /\ spectrumData = NONE
    /\ processedAudio = NONE
    /\ noiseReduction = DefaultNoiseReduction
    /\ pitchShift = DefaultPitchShift
    /\ volume = DefaultVolume
    /\ error = NULL
    /\ analysisResults = NULL
    /\ isAnalyzing = FALSE
    /\ tasks = <<>>
    /\ lastRequest = "none"

\* A call that has just started.  handleApplyEffects and handleAnalyze pass
\* the slider values and the sentiment label of the render they were
\* created in; the other handlers take no arguments.
NoArgs == [noise |-> NULL, pitch |-> NULL, vol |-> NULL, sentiment |-> NULL]

CapturedArgs ==
    [noise |-> noiseReduction, pitch |-> pitchShift, vol |-> volume,
     sentiment |-> analysisResults]

NewTask(handler, pc, f, args) ==
    [handler |-> handler, pc |-> pc, file |-> f, args |-> args,
     outcome |-> "pending", reported |-> FALSE]

\* Call t has settled: its arguments are dropped, its outcome is kept.
\* reported says whether the failure reached a caller's catch block.
Finish(t, outcome, reported) ==
    [tasks EXCEPT ![t].pc = "done", ![t].args = NoArgs,
                  ![t].outcome = outcome, ![t].reported = reported]

Pending(t) == tasks[t].pc # "done"
Quiescent == \A t \in DOMAIN tasks : ~Pending(t)

(***************************************************************************)
(* Slider onChange handlers.                                               *)
(***************************************************************************)
SetNoiseReduction(v) ==
    /\ v # noiseReduction
    /\ noiseReduction' = v
    /\ UNCHANGED <<audioFile, audioContext, waveformData, spectrumData,
                   processedAudio, pitchShift, volume, error,
                   analysisResults, isAnalyzing, tasks, lastRequest>>

SetPitchShift(v) ==
    /\ v # pitchShift
    /\ pitchShift' = v
    /\ UNCHANGED <<audioFile, audioContext, waveformData, spectrumData,
                   processedAudio, noiseReduction, volume, error,
                   analysisResults, isAnalyzing, tasks, lastRequest>>

SetVolume(v) ==
    /\ v # volume
    /\ volume' = v
    /\ UNCHANGED <<audioFile, audioContext, waveformData, spectrumData,
                   processedAudio, noiseReduction, pitchShift, error,
                   analysisResults, isAnalyzing, tasks, lastRequest>>

(***************************************************************************)
(* handleFileUploadWrapper -> handleFileUpload, up to its first await.     *)
(***************************************************************************)
HandleFileUpload(f) ==
    /\ Len(tasks) < MaxTasks
    /\ error' = NULL
    /\ audioFile' = f
    /\ processedAudio' = NONE
    /\ audioContext' = TRUE
    /\ tasks' = Append(tasks, NewTask("upload", "uploadDecode", f, NoArgs))
    /\ lastRequest' = "upload"
    /\ UNCHANGED <<waveformData, spectrumData, noiseReduction, pitchShift,
                   volume, analysisResults, isAnalyzing>>

\* The decode of upload t completes: its continuation runs, whatever has
\* been uploaded since.
UploadDecoded(t, ok) ==
    /\ tasks[t].pc = "uploadDecode"
    /\ IF ok
       THEN /\ waveformData' = ChannelData(tasks[t].file)
            /\ spectrumData' = AnalysisOf(tasks[t].file)
            /\ tasks' = Finish(t, "ok", FALSE)
            /\ UNCHANGED error
       ELSE \* throw 'Failed to process audio file', caught by the wrapper
            /\ error' = "Failed to process audio file. Please try a different file."
            /\ tasks' = Finish(t, "decodeFailed", TRUE)
            /\ UNCHANGED <<waveformData, spectrumData>>
    /\ UNCHANGED <<audioFile, audioContext, processedAudio, noiseReduction,
                   pitchShift, volume, analysisResults, isAnalyzing,
                   lastRequest>>

(***************************************************************************)
(* applyEffects                                                            *)
(***************************************************************************)
SentimentAdjust(sentiment) ==
    IF sentiment = "angry" THEN 1 ELSE IF sentiment = "sad" THEN -1 ELSE 0

\* A slip: the sentiment left out of the pitch shift.
RequestedPitchShift(ps, sentiment) == ps

FinalPitchShift(ps, sentiment) ==
    IF sentiment # NULL THEN ps + SentimentAdjust(sentiment) ELSE ps

NoEffects(nr, finalPs, vol) == nr = 0 /\ finalPs = 0 /\ vol = DefaultVolume

\* The blob applyEffects builds for call t.
EffectsBlob(t) ==
    [file |-> tasks[t].file, req |-> t, noise |-> tasks[t].args.noise,
     pitch |-> FinalPitchShift(tasks[t].args.pitch, tasks[t].args.sentiment),
     vol |-> tasks[t].args.vol]

\* What the caller of applyEffects does once the call has settled:
\* handleAnalyze's finally block.
AfterEffects(t) ==
    IF tasks[t].handler = "analyze" THEN isAnalyzing' = FALSE
    ELSE UNCHANGED isAnalyzing

\* handleApplyEffects, up to applyEffects' first await.
HandleApplyEffects ==
    /\ Len(tasks) < MaxTasks
    /\ audioFile # NULL            \* the button is disabled without a file
    /\ error' = NULL
    /\ IF audioContext
       THEN /\ tasks' = Append(tasks, NewTask("apply", "effectsDecode", audioFile, CapturedArgs))
            /\ lastRequest' = "effects"
       ELSE UNCHANGED <<tasks, lastRequest>>
    /\ UNCHANGED <<audioFile, audioContext, waveformData, spectrumData,
                   processedAudio, noiseReduction, pitchShift, volume,
                   analysisResults, isAnalyzing>>

\* The decode inside applyEffects call t completes; the rest of the call
\* (the three transforms, the WAV encoding, setProcessedAudio) follows with
\* no other handler in between: the promise it awaits is already resolved.
EffectsDecoded(t, decodeOk, shiftOk) ==
    /\ tasks[t].pc = "effectsDecode"
    /\ LET final == FinalPitchShift(tasks[t].args.pitch, tasks[t].args.sentiment)
       IN  IF ~decodeOk
           THEN \* caught inside applyEffects and only logged
                /\ tasks' = Finish(t, "decodeFailed", FALSE)
                /\ UNCHANGED processedAudio
           ELSE IF final # 0 /\ ~shiftOk
           THEN \* pitchShift threw; caught inside applyEffects, only logged
                /\ tasks' = Finish(t, "transformFailed", FALSE)
                /\ UNCHANGED processedAudio
           ELSE IF NoEffects(tasks[t].args.noise, final, tasks[t].args.vol)
           THEN /\ processedAudio' = NONE
                /\ tasks' = Finish(t, "noEffects", FALSE)
           ELSE /\ processedAudio' = EffectsBlob(t)
                /\ tasks' = Finish(t, "ok", FALSE)
    /\ AfterEffects(t)
    /\ UNCHANGED <<audioFile, audioContext, waveformData, spectrumData,
                   noiseReduction, pitchShift, volume, error,
                   analysisResults, lastRequest>>

(***************************************************************************)
(* handleAnalyze -> analyzeAudio, then applyEffects                        *)
(***************************************************************************)
HandleAnalyze ==
    /\ Len(tasks) < MaxTasks
    /\ audioFile # NULL /\ ~isAnalyzing   \* the button's disabled condition
    /\ IF audioContext
       THEN /\ isAnalyzing' = TRUE
            /\ error' = NULL
            /\ tasks' = Append(tasks, NewTask("analyze", "analyzeDecode", audioFile, CapturedArgs))
       ELSE \* analyzeAudio throws at once; catch and finally run
            /\ isAnalyzing' = FALSE
            /\ error' = "Failed to analyze audio"
            /\ UNCHANGED tasks
    /\ UNCHANGED <<audioFile, audioContext, waveformData, spectrumData,
                   processedAudio, noiseReduction, pitchShift, volume,
                   analysisResults, lastRequest>>

\* The decode inside analyzeAudio completes.  On success the report is
\* stored and applyEffects is called with the sliders handleAnalyze
\* captured and the report's sentiment label, which this version of
\* analyzeAudio fixes to 'angry'.
AnalysisSentiment == "angry"

AnalyzeDecoded(t, ok) ==
    /\ tasks[t].pc = "analyzeDecode"
    /\ IF ok
       THEN /\ analysisResults' = AnalysisSentiment
            /\ tasks' = [tasks EXCEPT ![t].pc = "effectsDecode",
                                      ![t].args.sentiment = AnalysisSentiment]
            /\ lastRequest' = "effects"
            /\ UNCHANGED <<error, isAnalyzing>>
       ELSE \* throw 'Failed to analyze audio', caught by handleAnalyze
            /\ error' = "Failed to analyze audio"
            /\ isAnalyzing' = FALSE
            /\ tasks' = Finish(t, "decodeFailed", TRUE)
            /\ UNCHANGED <<analysisResults, lastRequest>>
    /\ UNCHANGED <<audioFile, audioContext, waveformData, spectrumData,
                   processedAudio, noiseReduction, pitchShift, volume>>

(***************************************************************************)
(* handleResetEffects -> resetEffects                                      *)
(***************************************************************************)
HandleResetEffects ==
    /\ Len(tasks) < MaxTasks
    /\ audioFile # NULL            \* the button is disabled without a file
    /\ error' = NULL
    /\ noiseReduction' = DefaultNoiseReduction
    /\ pitchShift' = DefaultPitchShift
    /\ volume' = DefaultVolume
    /\ processedAudio' = NONE
    /\ lastRequest' = "reset"
    /\ IF audioContext
       THEN tasks' = Append(tasks, NewTask("reset", "resetDecode", audioFile, NoArgs))
       ELSE UNCHANGED tasks
    /\ UNCHANGED <<audioFile, audioContext, waveformData, spectrumData,
                   analysisResults, isAnalyzing>>

ResetDecoded(t, ok) ==
    /\ tasks[t].pc = "resetDecode"
    /\ IF ok
       THEN /\ waveformData' = ChannelData(tasks[t].file)
            /\ tasks' = Finish(t, "ok", FALSE)
       ELSE \* caught inside resetEffects and only logged
            /\ tasks' = Finish(t, "decodeFailed", FALSE)
            /\ UNCHANGED waveformData
    /\ UNCHANGED <<audioFile, audioContext, spectrumData, processedAudio,
                   noiseReduction, pitchShift, volume, error,
                   analysisResults, isAnalyzing, lastRequest>>

(***************************************************************************)
(* Claims about the hook and App.tsx                                       *)
(***************************************************************************)
IsUpload(t) == tasks[t].handler = "upload"
IsEffects(t) == tasks[t].handler \in {"apply", "analyze"}
Succeeded(t) == tasks[t].pc = "done" /\ tasks[t].outcome = "ok"

\* C1: when two uploads have both been decoded, waveformData and
\* spectrumData are those of the later upload, the file audioFile names,
\* whatever order the two decodes completed in.
C1_SupersededDecodeIgnored ==
    \A a, b \in DOMAIN tasks :
        ( /\ a < b
          /\ IsUpload(a) /\ IsUpload(b)
          /\ Succeeded(a) /\ Succeeded(b)
          /\ \A c \in DOMAIN tasks : c > b => ~IsUpload(c)
          /\ \A c \in DOMAIN tasks : tasks[c].handler # "reset" )
        => /\ audioFile = tasks[b].file
           /\ waveformData = ChannelData(tasks[b].file)
           /\ spectrumData = AnalysisOf(tasks[b].file)

\* C2: once all asynchronous work has completed, processedAudio is not the
\* result of an applyEffects request that a later one has superseded, nor
\* a result derived from a file other than audioFile.
C2_EffectsSuperseded ==
    (Quiescent /\ processedAudio # NONE)
    => /\ processedAudio.file = audioFile
       /\ (\A t \in DOMAIN tasks : tasks[t].handler # "analyze")
          => \A t \in DOMAIN tasks :
                (tasks[t].handler = "apply"
                 /\ tasks[t].outcome \in {"ok", "noEffects"})
                => t <= processedAudio.req

\* C3: after resetEffects, and as long as applyEffects is not requested
\* again, processedAudio is null, also when an applyEffects call was in
\* flight at the reset.
C3_ResetRevertsToOriginal ==
    lastRequest = "reset" => processedAudio = NONE

\* C4: a decode failure or a pitch-shift failure inside applyEffects
\* reaches the caller of applyEffects, whose catch block sets the error.
C4_EffectsFailureSurfaced ==
    \A t \in DOMAIN tasks :
        ( /\ IsEffects(t)
          /\ tasks[t].pc = "done"
          /\ tasks[t].outcome \in {"decodeFailed", "transformFailed"} )
        => tasks[t].reported

(***************************************************************************)
(* Buffers of the phase vocoder.                                           *)
(*                                                                         *)
(* pitchShift works on windows of 2048 samples, so its Float32Arrays are   *)
(* kept run-length encoded: a buffer is a sequence of runs [n, v], n > 0   *)
(* consecutive samples of value v, adjacent runs of different values.      *)
(* Indices are 0-based, as in the source.                                  *)
(***************************************************************************)
Min(a, b) == IF a < b THEN a ELSE b
Max(a, b) == IF a > b THEN a ELSE b
Abs(x) == IF x < 0 THEN -x ELSE x

Run(n, v) == IF n <= 0 THEN <<>> ELSE <<[n |-> n, v |-> v]>>

\* b followed by c, merging the runs that meet when they hold one value.
Concat(b, c) ==
    IF b = <<>> THEN c
    ELSE IF c = <<>> THEN b
    ELSE IF b[Len(b)].v = c[1].v
    THEN SubSeq(b, 1, Len(b) - 1)
         \o <<[n |-> b[Len(b)].n + c[1].n, v |-> c[1].v]>>
         \o Tail(c)
    ELSE b \o c

RECURSIVE BufLen(_)
BufLen(b) == IF b = <<>> THEN 0 ELSE Head(b).n + BufLen(Tail(b))

\* new Float32Array(n)
Zeros(n) == Run(n, 0)

\* The first k samples of b, and b without them.
RECURSIVE Take(_, _)
Take(b, k) ==
    IF k <= 0 \/ b = <<>> THEN <<>>
    ELSE IF Head(b).n >= k THEN Run(k, Head(b).v)
    ELSE <<Head(b)>> \o Take(Tail(b), k - Head(b).n)

RECURSIVE Drop(_, _)
Drop(b, k) ==
    IF k <= 0 \/ b = <<>> THEN b
    ELSE IF Head(b).n > k THEN <<[n |-> Head(b).n - k, v |-> Head(b).v]>> \o Tail(b)
    ELSE Drop(Tail(b), k - Head(b).n)

\* Float32Array.prototype.slice(from, to): the indices are clamped.
Slice(b, from, to) == Take(Drop(b, Max(from, 0)), to - Max(from, 0))

\* b[i]
SampleAt(b, i) == Head(Drop(b, i)).v

\* The largest |b[i]|, 0 when every sample is 0 or there is none.
RECURSIVE Peak(_)
Peak(b) == IF b = <<>> THEN 0 ELSE Max(Abs(Head(b).v), Peak(Tail(b)))

\* b with x added to every sample.
RECURSIVE AddToAll(_, _)
AddToAll(b, x) ==
    IF b = <<>> THEN <<>>
    ELSE Concat(Run(Head(b).n, Head(b).v + x), AddToAll(Tail(b), x))

\* b[k] += x for from <= k < to.
AddToRange(b, from, to, x) ==
    Concat(Concat(Take(b, from), AddToAll(Slice(b, from, to), x)), Drop(b, to))

(***************************************************************************)
(* AudioProcessor.pitchShift                                               *)
(*                                                                         *)
(* Samples are integers in thousandths (500 is 0.5).  shiftFactor is       *)
(* 2^(semitones/12); the table holds it to nine decimals as <<hi, lo>>,    *)
(* shiftFactor * 10^9 = hi * 10^4 + lo, so that every product below stays  *)
(* inside 32 bits for buffers of a few thousand samples.                   *)
(***************************************************************************)
WindowSize == 2048
HopSize == WindowSize \div 8
Headroom == 950
MaxSemitones == 12
Semitones == (-MaxSemitones)..MaxSemitones
PitchShiftError == "Failed to apply pitch shift"

ShiftFactorTable ==
    << <<50000, 0>>,     <<52973, 1547>>,  <<56123, 1024>>,  <<59460, 3558>>,
       <<62996, 525>>,   <<66741, 9927>>,  <<70710, 6781>>,  <<74915, 3538>>,
       <<79370, 526>>,   <<84089, 6415>>,  <<89089, 8718>>,  <<94387, 4313>>,
       <<100000, 0>>,
       <<105946, 3094>>, <<112246, 2048>>, <<118920, 7115>>, <<125992, 1050>>,
       <<133483, 9854>>, <<141421, 3562>>, <<149830, 7077>>, <<158740, 1052>>,
       <<168179, 2831>>, <<178179, 7436>>, <<188774, 8625>>, <<200000, 0>> >>

\* Math.pow(2, semitones / 12)
ShiftFactor(s) == ShiftFactorTable[s + MaxSemitones + 1]

\* Math.floor(n * shiftFactor)
MulFloor(n, s) ==
    LET hi == ShiftFactor(s)[1]
        lo == ShiftFactor(s)[2]
    IN  (n * hi + ((n * lo) \div 10000)) \div 100000

\* m * shiftFactor <= n
TimesAtMost(m, s, n) ==
    LET hi == ShiftFactor(s)[1]
        lo == ShiftFactor(s)[2]
        carry == IF (m * lo) % 10000 > 0 THEN 1 ELSE 0
    IN  m * hi + ((m * lo) \div 10000) + carry <= n * 100000

\* A slip: the length multiplied by the factor it has to be divided by.
OutputLengthTimes(length, s) == MulFloor(length, s)

\* Math.floor(length / shiftFactor): the greatest m with m * shiftFactor <=
\* length, looked for next to length * 2^(-semitones/12).
OutputLength(length, s) ==
    LET near == MulFloor(length, -s)
    IN  CHOOSE m \in Max(near - 1, 0)..(near + 1) :
            TimesAtMost(m, s, length) /\ ~TimesAtMost(m + 1, s, length)

VARIABLES
    audioData,        \* the Float32Array an AudioProcessor method is called on
    \* one call of pitchShift
    semitones,        \* its second argument
    pitchPc,          \* "off", "called", "loop" or "done"
    shiftedData,      \* the output buffer
    hop,              \* the loop variable i
    frame,            \* the input frame the last hop analysed, or NoFrame
    written,          \* the range of shiftedData the last hop wrote to
    raised,           \* the step that threw inside the try block, or "none"
    pitchResult,      \* what the call returned or threw
    pass,             \* 1, or 2 when the buffer is being shifted back
    originalLength    \* the length of the buffer pass 1 was called on

pitchVars == <<semitones, pitchPc, shiftedData, hop, frame, written, raised,
               pitchResult, pass, originalLength>>

NoFrame == [analysed |-> FALSE]
NoWrite == [wrote |-> FALSE]
NoResult == [kind |-> "none"]
Returned(buffer) == [kind |-> "returned", buffer |-> buffer]
Thrown(message) == [kind |-> "threw", message |-> message]

\* No call of pitchShift is in progress.
PitchIdle ==
    /\ semitones = 0
    /\ pitchPc = "off"
    /\ shiftedData = <<>>
    /\ hop = 0
    /\ frame = NoFrame
    /\ written = NoWrite
    /\ raised = "none"
    /\ pitchResult = NoResult
    /\ pass = 1
    /\ originalLength = 0

\* A slip: no early return for an interval of 0.
NeverIdentityShift(s) == FALSE

\* if (semitones === 0) return audioData.slice();
IsIdentityShift(s) == s = 0

\* A slip: the frame's start is not clamped to the last whole frame.
FrameStartUnclamped(i, s, length) == MulFloor(i, s)

\* const start = Math.min(Math.floor(i * shiftFactor), audioData.length - windowSize);
FrameStart(i, s, length) == Min(MulFloor(i, s), length - WindowSize)

\* The hop's writes: shiftedData[i + j] for j < hopSize && i + j < outputLength.
WriteEnd(i, outputLength) == Min(i + HopSize, outputLength)

\* audioData.slice(start, start + windowSize), replaced by zeros when short.
Window(b, start) ==
    LET window == Slice(b, start, start + WindowSize)
    IN  IF BufLen(window) < WindowSize THEN Zeros(WindowSize) ELSE window

\* applyHannWindow weighs the first and the last sample of a frame by 0 and
\* every other sample by a positive number: the windowed frame is all zeros
\* exactly when the frame is zero between its end points.
WindowedIsSilent(window) == Peak(Slice(window, 1, BufLen(window) - 1)) = 0

\* What one hop adds to each of its output samples.  fft-js is not part of
\* the repository: a silent frame has magnitudes 0 and resynthesises to 0,
\* any other frame to a level the model leaves open.
SynthLevels == {0, 300, -900}
HopLevels(window) == IF WindowedIsSilent(window) THEN {0} ELSE SynthLevels

\* shiftedData[i] / maxAmplitude * 0.95
Scale(v, maxAmplitude) ==
    IF v < 0 THEN -(((-v) * Headroom) \div maxAmplitude)
    ELSE (v * Headroom) \div maxAmplitude

RECURSIVE ScaleAll(_, _)
ScaleAll(b, maxAmplitude) ==
    IF b = <<>> THEN <<>>
    ELSE Concat(Run(Head(b).n, Scale(Head(b).v, maxAmplitude)),
                ScaleAll(Tail(b), maxAmplitude))

\* The normalisation after the loop.
Normalized(b) ==
    LET maxAmplitude == Peak(b)
    IN  IF maxAmplitude > 0 THEN ScaleAll(b, maxAmplitude) ELSE b

\* A slip: the catch clause logs and lets the function return its buffer.
SwallowPitchShiftError(e) == Returned(shiftedData)

\* catch (e) { debugLog(...); throw new Error('Failed to apply pitch shift'); }
CatchPitchShift(e) == Thrown(PitchShiftError)

\* The buffers pitchShift is called on.
MaxExtraHops == 1
ShortLengths == {0, 1, 3, WindowSize - 1}
LongLengths == {WindowSize + 1} \cup {WindowSize + k * HopSize : k \in 0..MaxExtraHops}
InputLevels == {500, -250}

Constant(n, v) == Run(n, v)
Impulse(n, at, v) == Concat(Concat(Zeros(at), Run(1, v)), Zeros(n - at - 1))

\* Buffers none of whose frames survives the window: too short to hold a
\* frame, all zeros, or zero but for their first sample.
QuietBuffers ==
    {Zeros(n) : n \in ShortLengths \cup LongLengths}
    \cup {Constant(n, v) : n \in ShortLengths \ {0}, v \in InputLevels}
    \cup {Impulse(n, 0, v) : n \in (ShortLengths \cup LongLengths) \ {0}, v \in InputLevels}
    \cup {Impulse(n, n - 1, v) : n \in ShortLengths \ {0, 1}, v \in InputLevels}

\* Long buffers with signal inside their frames.  They are shifted up only:
\* every hop of theirs branches over SynthLevels, and there are fewer hops
\* the shorter the output is.
VoicedBuffers ==
    {Constant(n, 500) : n \in LongLengths}
    \cup {Impulse(n, n \div 2, -250) : n \in LongLengths}
VoicedSemitones == {7, MaxSemitones}

PitchInputs ==
    {<<b, s>> : b \in QuietBuffers, s \in Semitones}
    \cup {<<b, s>> : b \in VoicedBuffers, s \in VoicedSemitones}

InitPitchCall ==
    /\ \E in \in PitchInputs :
        /\ audioData = in[1]
        /\ semitones = in[2]
        /\ originalLength = BufLen(in[1])
    /\ pitchPc = "called"
    /\ shiftedData = <<>>
    /\ hop = 0
    /\ frame = NoFrame
    /\ written = NoWrite
    /\ raised = "none"
    /\ pitchResult = NoResult
    /\ pass = 1

\* pitchShift up to the try block.
PitchShiftEnter ==
    /\ pitchPc = "called"
    /\ IF IsIdentityShift(semitones)
       THEN /\ pitchResult' = Returned(Slice(audioData, 0, BufLen(audioData)))
            /\ pitchPc' = "done"
            /\ UNCHANGED shiftedData
       ELSE /\ shiftedData' = Zeros(OutputLength(BufLen(audioData), semitones))
            /\ pitchPc' = "loop"
            /\ UNCHANGED pitchResult
    /\ UNCHANGED <<audioData, semitones, hop, frame, written, raised, pass,
                   originalLength>>

InLoop == pitchPc = "loop" /\ hop < BufLen(shiftedData)
HopStart == FrameStart(hop, semitones, BufLen(audioData))

\* if (start < 0) continue;
HopSkipped ==
    /\ InLoop
    /\ HopStart < 0
    /\ hop' = hop + HopSize
    /\ frame' = NoFrame
    /\ written' = NoWrite
    /\ UNCHANGED <<audioData, semitones, pitchPc, shiftedData, raised,
                   pitchResult, pass, originalLength>>

\* One hop that analyses a frame and adds its resynthesis to the output.
HopShifted(level) ==
    /\ InLoop
    /\ HopStart >= 0
    /\ level \in HopLevels(Window(audioData, HopStart))
    /\ frame' = [analysed |-> TRUE, start |-> HopStart,
                 read |-> BufLen(Slice(audioData, HopStart, HopStart + WindowSize))]
    /\ written' = [wrote |-> TRUE, from |-> hop,
                   to |-> WriteEnd(hop, BufLen(shiftedData))]
    /\ shiftedData' = AddToRange(shiftedData, hop,
                                 WriteEnd(hop, BufLen(shiftedData)), level)
    /\ hop' = hop + HopSize
    /\ UNCHANGED <<audioData, semitones, pitchPc, raised, pitchResult, pass,
                   originalLength>>

\* A step of the try block throws: control goes to the catch clause.
Throw(step) ==
    /\ raised' = step
    /\ pitchResult' = CatchPitchShift(step)
    /\ pitchPc' = "done"
    /\ UNCHANGED <<audioData, semitones, shiftedData, hop, frame, written,
                   pass, originalLength>>

\* fft or ifft throws in a hop.
HopThrows(step) ==
    /\ InLoop
    /\ HopStart >= 0
    /\ Throw(step)

\* The loop is over: normalise and return shiftedData.
NormalizeAndReturn ==
    /\ pitchPc = "loop"
    /\ hop >= BufLen(shiftedData)
    /\ shiftedData' = Normalized(shiftedData)
    /\ pitchResult' = Returned(Normalized(shiftedData))
    /\ pitchPc' = "done"
    /\ UNCHANGED <<audioData, semitones, hop, frame, written, raised, pass,
                   originalLength>>

\* Math.max(...shiftedData.map(Math.abs)) throws: the spread passes one
\* argument per sample.
NormalizeThrows ==
    /\ pitchPc = "loop"
    /\ hop >= BufLen(shiftedData)
    /\ Throw("normalize")

\* The caller shifts the buffer it got back by the opposite interval.
ShiftBack ==
    /\ pitchPc = "done"
    /\ pitchResult.kind = "returned"
    /\ pass = 1
    /\ semitones # 0
    /\ audioData' = pitchResult.buffer
    /\ semitones' = -semitones
    /\ pass' = 2
    /\ pitchPc' = "called"
    /\ shiftedData' = <<>>
    /\ hop' = 0
    /\ frame' = NoFrame
    /\ written' = NoWrite
    /\ pitchResult' = NoResult
    /\ UNCHANGED <<raised, originalLength>>

(***************************************************************************)
(* AudioProcessor.reduceNoise                                              *)
(***************************************************************************)
VARIABLES
    amount,           \* reduceNoise's second argument, a percentage
    noisePc,          \* "off", "called" or "done"
    noiseResult       \* the buffer the call returned

noiseVars == <<amount, noisePc, noiseResult>>

NoiseIdle ==
    /\ amount = 0
    /\ noisePc = "off"
    /\ noiseResult = NoResult

\* A slip: (amount || 50), a default that also replaces an amount of 0.
ThresholdWithDefault(a) == IF a = 0 THEN 50 ELSE (a * 100) \div 100

\* const threshold = (amount / 100) * 0.1, in thousandths as the samples are.
Threshold(a) == (a * 100) \div 100

\* A slip: <= for <, which also silences a sample at the threshold.
GateInclusive(v, threshold) == IF Abs(v) <= threshold THEN 0 ELSE v

\* Math.abs(audioData[i]) < threshold ? 0 : audioData[i]
Gate(v, threshold) == IF Abs(v) < threshold THEN 0 ELSE v

RECURSIVE GateAll(_, _)
GateAll(b, threshold) ==
    IF b = <<>> THEN <<>>
    ELSE Concat(Run(Head(b).n, Gate(Head(b).v, threshold)),
                GateAll(Tail(b), threshold))

ReduceNoise(b, a) == GateAll(b, Threshold(a))

\* The buffers and amounts reduceNoise is called on.
MaxNoiseLength == 3
NoiseSamples == {0, 1, -49, 50, -100, 500}
Amounts == {0, 1, 50, 100}

RECURSIVE SamplesOfLength(_)
SamplesOfLength(n) ==
    IF n = 0 THEN {<<>>}
    ELSE {Concat(Run(1, v), b) : v \in NoiseSamples, b \in SamplesOfLength(n - 1)}

NoiseBuffers == UNION {SamplesOfLength(n) : n \in 0..MaxNoiseLength}

InitNoiseCall ==
    /\ audioData \in NoiseBuffers
    /\ amount \in Amounts
    /\ noisePc = "called"
    /\ noiseResult = NoResult

ReduceNoiseCall ==
    /\ noisePc = "called"
    /\ noiseResult' = Returned(ReduceNoise(audioData, amount))
    /\ noisePc' = "done"
    /\ UNCHANGED <<audioData, amount>>

\* The caller passes the result to reduceNoise again.
ReduceNoiseAgain(a) ==
    /\ noisePc = "done"
    /\ audioData' = noiseResult.buffer
    /\ amount' = a
    /\ noisePc' = "called"
    /\ noiseResult' = NoResult

(***************************************************************************)
(* AudioProcessor.adjustVolume                                             *)
(*                                                                         *)
(* The gain is in tenths, as the volume slider's step is (10 is 1.0).      *)
(***************************************************************************)
VARIABLES
    gain,             \* adjustVolume's second argument
    volumePc,         \* "off", "called" or "done"
    volumeResult      \* the buffer the call returned

volumeVars == <<gain, volumePc, volumeResult>>

VolumeIdle ==
    /\ gain = DefaultVolume
    /\ volumePc = "off"
    /\ volumeResult = NoResult

\* A slip: the product is only bounded from above.
AdjustSampleUpperOnly(v, g) == Min(1000, (v * g) \div 10)

\* Math.max(-1, Math.min(1, audioData[i] * gain))
AdjustSample(v, g) == Max(-1000, Min(1000, (v * g) \div 10))

RECURSIVE AdjustAll(_, _)
AdjustAll(b, g) ==
    IF b = <<>> THEN <<>>
    ELSE Concat(Run(Head(b).n, AdjustSample(Head(b).v, g)), AdjustAll(Tail(b), g))

AdjustVolume(b, g) == AdjustAll(b, g)

\* The buffers and gains adjustVolume is called on: samples inside and
\* outside [-1, 1], gains of the slider (0 to 2.0) and gains beyond it.
MaxVolumeLength == 2
VolumeSamples == {0, 300, -500, 1000, -1500}
Gains == {-10, 0, 5, 10, 15, 20, 30, 40}

RECURSIVE VolumeBuffersOfLength(_)
VolumeBuffersOfLength(n) ==
    IF n = 0 THEN {<<>>}
    ELSE {Concat(Run(1, v), b) : v \in VolumeSamples, b \in VolumeBuffersOfLength(n - 1)}

VolumeBuffers == UNION {VolumeBuffersOfLength(n) : n \in 0..MaxVolumeLength}

InitVolumeCall ==
    /\ audioData \in VolumeBuffers
    /\ gain \in Gains
    /\ volumePc = "called"
    /\ volumeResult = NoResult

AdjustVolumeCall ==
    /\ volumePc = "called"
    /\ volumeResult' = Returned(AdjustVolume(audioData, gain))
    /\ volumePc' = "done"
    /\ UNCHANGED <<audioData, gain>>

(***************************************************************************)
(* The analysis methods of AudioProcessor: applyHannWindow,                *)
(* analyzeFrequency, detectPitch, getAmplitude and calculateClarity.       *)
(*                                                                         *)
(* They are followed sample by sample on buffers of up to 17 samples.  A   *)
(* number is a record: NaN, or a finite value.  Samples are thousandths,   *)
(* window weights thousandths, windowed samples therefore millionths.      *)
(***************************************************************************)
NaN == [nan |-> TRUE, v |-> 0]
Num(x) == [nan |-> FALSE, v |-> x]

\* a * b, a and b numbers
Times(a, b) == IF a.nan \/ b.nan THEN NaN ELSE Num(a.v * b.v)

\* 0.5 * (1 - Math.cos((2 * Math.PI * i) / (N - 1))) in thousandths, for
\* N = 2..17: row N - 1 holds the weights of i = 0..N-1.
HannTable ==
    << <<0, 0>>,
       <<0, 1000, 0>>,
       <<0, 750, 750, 0>>,
       <<0, 500, 1000, 500, 0>>,
       <<0, 345, 905, 905, 345, 0>>,
       <<0, 250, 750, 1000, 750, 250, 0>>,
       <<0, 188, 611, 950, 950, 611, 188, 0>>,
       <<0, 146, 500, 854, 1000, 854, 500, 146, 0>>,
       <<0, 117, 413, 750, 970, 970, 750, 413, 117, 0>>,
       <<0, 95, 345, 655, 905, 1000, 905, 655, 345, 95, 0>>,
       <<0, 79, 292, 571, 827, 980, 980, 827, 571, 292, 79, 0>>,
       <<0, 67, 250, 500, 750, 933, 1000, 933, 750, 500, 250, 67, 0>>,
       <<0, 57, 216, 440, 677, 874, 985, 985, 874, 677, 440, 216, 57, 0>>,
       <<0, 50, 188, 389, 611, 812, 950, 1000, 950, 812, 611, 389, 188, 50, 0>>,
       <<0, 43, 165, 345, 552, 750, 905, 989, 989, 905, 750, 552, 345, 165, 43, 0>>,
       <<0, 38, 146, 309, 500, 691, 854, 962, 1000, 962, 854, 691, 500, 309, 146, 38, 0>> >>

\* The multiplier of sample i of N.  For N = 1 the quotient is 0 / 0, NaN,
\* and so are its cosine and the multiplier.
HannMultiplier(i, N) == IF N - 1 = 0 THEN NaN ELSE Num(HannTable[N - 1][i + 1])

\* applyHannWindow(data)
ApplyHannWindow(data) ==
    [k \in 1..Len(data) |-> Times(data[k], HannMultiplier(k - 1, Len(data)))]

\* Math.floor(Math.log2(n)) for n >= 1
RECURSIVE FloorLog2(_)
FloorLog2(n) == IF n < 2 THEN 0 ELSE 1 + FloorLog2(n \div 2)

\* Math.pow(2, Math.floor(Math.log2(audioData.length))); log2(0) is
\* -Infinity and 2 to that power is 0.
FftSize(n) == IF n = 0 THEN 0 ELSE 2 ^ FloorLog2(n)

\* signal: a Float32Array(fftSize) set from windowedData.slice(0, fftSize).
Signal(windowed, fftSize) ==
    [k \in 1..fftSize |-> IF k <= Len(windowed) THEN windowed[k] ELSE Num(0)]

VARIABLES
    samples,          \* audioData of an analysis method, sample by sample
    sampleRate,
    analysisPc,       \* how far the calls on this buffer have got
    amplitude,        \* what getAmplitude returned
    windowedData,     \* what applyHannWindow returned
    spectrum,         \* what analyzeFrequency returned or threw
    pitch,            \* what detectPitch returned
    clarity           \* what calculateClarity returned

analysisVars == <<samples, sampleRate, analysisPc, amplitude, windowedData,
                  spectrum, pitch, clarity>>

\* A method returned x.
Value(x) == [kind |-> "returned", value |-> x]

AnalysisIdle ==
    /\ samples = <<>>
    /\ sampleRate = 0
    /\ analysisPc = "off"
    /\ amplitude = NoResult
    /\ windowedData = NoResult
    /\ spectrum = NoResult
    /\ pitch = NoResult
    /\ clarity = NoResult

\* The buffers the analysis methods are called on: silence, a constant
\* level, one sample that is not 0 (the first, or one in the middle), and a
\* buffer that holds a NaN.
AnalysisLengths == {0, 1, 2, 3, 4, 5, 8, 16, 17}
SampleRates == {3200, 16000}

Filled(n, x) == [k \in 1..n |-> x]
WithSample(n, at, x) == [k \in 1..n |-> IF k = at THEN x ELSE Num(0)]

AnalysisBuffers ==
    {Filled(n, Num(0)) : n \in AnalysisLengths}
    \cup {Filled(n, Num(500)) : n \in AnalysisLengths}
    \cup {WithSample(n, 1, Num(500)) : n \in AnalysisLengths}
    \cup {WithSample(n, (n + 1) \div 2, Num(-250)) : n \in AnalysisLengths}
    \cup {WithSample(n, (n + 1) \div 2, NaN) : n \in AnalysisLengths}

InitAnalysisCall ==
    /\ samples \in AnalysisBuffers
    /\ sampleRate \in SampleRates
    /\ analysisPc = "called"
    /\ amplitude = NoResult
    /\ windowedData = NoResult
    /\ spectrum = NoResult
    /\ pitch = NoResult
    /\ clarity = NoResult

\* Some sample is NaN.
HasNaN(data) == \E k \in DOMAIN data : data[k].nan

\* data.reduce((sum, val) => sum + val * val, 0)
RECURSIVE SumOfSquares(_)
SumOfSquares(data) ==
    IF data = <<>> THEN Num(0)
    ELSE LET rest == SumOfSquares(Tail(data))
             sq == Times(Head(data), Head(data))
         IN  IF rest.nan \/ sq.nan THEN NaN ELSE Num(rest.v + sq.v)

\* sum / data.length: 0 / 0 is NaN.
MeanOfSquares(data) ==
    IF Len(data) = 0 \/ SumOfSquares(data).nan THEN NaN
    ELSE Num(SumOfSquares(data).v \div Len(data))

\* Math.sqrt on integers.
ISqrt(n) == CHOOSE r \in 0..n : r * r <= n /\ (r + 1) * (r + 1) > n

\* getAmplitude: Math.min(1, rms / 0.5), in thousandths.  Math.sqrt and
\* Math.min return NaN for NaN.
GetAmplitude(data) ==
    IF MeanOfSquares(data).nan THEN NaN
    ELSE Num(Min(1000, 2 * ISqrt(MeanOfSquares(data).v)))

GetAmplitudeCall ==
    /\ analysisPc = "called"
    /\ amplitude' = Value(GetAmplitude(samples))
    /\ analysisPc' = "measured"
    /\ UNCHANGED <<samples, sampleRate, windowedData, spectrum, pitch, clarity>>

\* analyzeFrequency, line 8.
ApplyHannWindowCall ==
    /\ analysisPc = "measured"
    /\ windowedData' = Value(ApplyHannWindow(samples))
    /\ analysisPc' = "windowed"
    /\ UNCHANGED <<samples, sampleRate, amplitude, spectrum, pitch, clarity>>

\* fft-js is not part of the repository.  What the model takes from it: a
\* signal that holds a NaN transforms to NaN in every bin, a signal of zeros
\* to zeros, and any other signal to magnitudes the model leaves open.  The
\* magnitudes are in units of 0.00001, so that detectPitch's amplification
\* by 100000 gives integers.
MagLevels == {0, 1, 200}

\* The possible values of Math.sqrt(re * re + im * im) / (fftSize / 2), bin
\* by bin, for the first fftSize / 2 bins.
RawMagnitudes(signal) ==
    LET half == Len(signal) \div 2
    IN  IF HasNaN(signal) THEN {[k \in 1..half |-> NaN]}
        ELSE IF \A k \in DOMAIN signal : signal[k].v = 0
        THEN {[k \in 1..half |-> Num(0)]}
        ELSE [1..half -> {Num(m) : m \in MagLevels}]

\* A slip: the magnitude is returned as computed.
MagnitudeUnguarded(mag) == mag

\* return isNaN(mag) ? 0 : mag;
Magnitude(mag) == IF mag.nan THEN Num(0) ELSE mag

\* (i * sampleRate) / fftSize
Frequency(i, rate, fftSize) == (i * rate) \div fftSize

Spectrum(raw, rate, fftSize) ==
    [kind |-> "returned",
     frequencies |-> [k \in 1..(fftSize \div 2) |-> Frequency(k - 1, rate, fftSize)],
     magnitudes |-> [k \in 1..(fftSize \div 2) |-> Magnitude(raw[k])]]

AnalysisSignal == Signal(windowedData.value, FftSize(Len(samples)))

\* analyzeFrequency, lines 9 to 25, when fft returns.  Of an empty array the
\* transform is empty.
AnalyzeFrequencyReturns ==
    /\ analysisPc = "windowed"
    /\ \E raw \in RawMagnitudes(AnalysisSignal) :
        spectrum' = Spectrum(raw, sampleRate, FftSize(Len(samples)))
    /\ analysisPc' = "analyzed"
    /\ UNCHANGED <<samples, sampleRate, amplitude, windowedData, pitch, clarity>>

\* fft is handed an empty array and does not return: its recursion stops at
\* arrays of length 1 only, whether it does so at length 0 is the library's
\* affair.  The RangeError leaves analyzeFrequency, which has no handler.
AnalyzeFrequencyThrows ==
    /\ analysisPc = "windowed"
    /\ Len(AnalysisSignal) = 0
    /\ spectrum' = Thrown("RangeError")
    /\ analysisPc' = "failed"
    /\ UNCHANGED <<samples, sampleRate, amplitude, windowedData, pitch, clarity>>

\* detectPitch: amplifiedMagnitudes[i], an integer in the model's units.
Amplified(sp, i) == sp.magnitudes[i + 1].v

\* hps[i], the product of the bin and of its second and third harmonic
\* where the spectrum has them.
Hps(sp, i) ==
    LET n == Len(sp.frequencies)
    IN  Amplified(sp, i)
        * (IF i * 2 < n THEN Amplified(sp, i * 2) ELSE 1)
        * (IF i * 3 < n THEN Amplified(sp, i * 3) ELSE 1)

\* hps[i] > hps[i - 1] && hps[i] > hps[i + 1] && hps[i] > 0.001, hps[i] an
\* integer.
IsHpsPeak(sp, i) ==
    /\ Hps(sp, i) > Hps(sp, i - 1)
    /\ Hps(sp, i) > Hps(sp, i + 1)
    /\ Hps(sp, i) >= 1

\* peaks, in the order of the scan: bins 1 to hps.length - 2.
RECURSIVE HpsPeaksFrom(_, _)
HpsPeaksFrom(sp, i) ==
    IF i > Len(sp.frequencies) - 2 THEN <<>>
    ELSE (IF IsHpsPeak(sp, i)
          THEN <<[freq |-> sp.frequencies[i + 1], value |-> Hps(sp, i)]>>
          ELSE <<>>)
         \o HpsPeaksFrom(sp, i + 1)

\* A slip: a sort that puts a peak before the peaks of its own value.
InsertBeforeEqual(p, sorted) ==
    LET before == SelectSeq(sorted, LAMBDA q : q.value > p.value)
        after == SelectSeq(sorted, LAMBDA q : q.value <= p.value)
    IN  before \o <<p>> \o after

\* peaks.sort((a, b) => b.value - a.value) is stable: a peak goes behind
\* the peaks already there whose value is at least its own.
InsertByValue(p, sorted) ==
    LET before == SelectSeq(sorted, LAMBDA q : q.value >= p.value)
        after == SelectSeq(sorted, LAMBDA q : q.value < p.value)
    IN  before \o <<p>> \o after

RECURSIVE SortByValue(_, _)
SortByValue(peaks, sorted) ==
    IF peaks = <<>> THEN sorted
    ELSE SortByValue(Tail(peaks), InsertByValue(Head(peaks), sorted))

\* peaks.find((p) => p.freq >= 50 && p.freq <= 500)?.freq || peaks[0]?.freq || 0
DetectPitch(sp) ==
    LET peaks == SortByValue(HpsPeaksFrom(sp, 1), <<>>)
        voiced == SelectSeq(peaks, LAMBDA p : p.freq >= 50 /\ p.freq <= 500)
    IN  IF voiced # <<>> /\ voiced[1].freq # 0 THEN voiced[1].freq
        ELSE IF peaks # <<>> /\ peaks[1].freq # 0 THEN peaks[1].freq
        ELSE 0

\* detectPitch after its call of analyzeFrequency.
DetectPitchCall ==
    /\ analysisPc = "analyzed"
    /\ pitch' = Value(DetectPitch(spectrum))
    /\ analysisPc' = "pitched"
    /\ UNCHANGED <<samples, sampleRate, amplitude, windowedData, spectrum, clarity>>

\* calculateClarity: this.reduceNoise(audioData, 50), sample by sample.  A
\* NaN is not below the threshold and is kept.
NoiseData(data) ==
    [k \in DOMAIN data |->
        IF data[k].nan THEN NaN ELSE Num(Gate(data[k].v, Threshold(50)))]

\* The sum of line 77: val * val for the samples with Math.abs(val) < 0.01,
\* in millionths.
RECURSIVE QuietSumOfSquares(_)
QuietSumOfSquares(data) ==
    IF data = <<>> THEN 0
    ELSE (IF ~Head(data).nan /\ Abs(Head(data).v) < 10
          THEN Head(data).v * Head(data).v ELSE 0)
         + QuietSumOfSquares(Tail(data))

\* noisePower: that sum / noiseData.length, where 0 / 0 is NaN.
NoisePower(data) ==
    IF Len(data) = 0 THEN NaN
    ELSE Num(QuietSumOfSquares(NoiseData(data)) \div Len(data))

\* snrScore = Math.min(1, Math.log10(snr + 1) / 2), in thousandths, with
\* snr = signalPower / (noisePower + 1e-10).  The logarithm is 0 for a
\* signal power of 0 and at least 2 from snr = 99 on, which every buffer of
\* the model with a sample that is not 0 reaches when its sum of squares
\* exceeds 99 times the noise sum (1e-10 is less than a millionth); NaN
\* when the signal power is NaN.
SnrScore(data) ==
    LET signal == SumOfSquares(data)
        noise == QuietSumOfSquares(NoiseData(data))
    IN  IF MeanOfSquares(data).nan THEN NaN
        ELSE IF signal.v = 0 THEN Num(0)
        ELSE IF signal.v > 99 * noise THEN Num(1000)
        ELSE Num((1000 * signal.v) \div (99 * noise + 1))

\* magnitudes[i] > magnitudes[i - 1] && magnitudes[i] > magnitudes[i + 1]
\* && magnitudes[i] > 0.001
IsMagnitudePeak(sp, i) ==
    /\ sp.magnitudes[i + 1].v > sp.magnitudes[i].v
    /\ sp.magnitudes[i + 1].v > sp.magnitudes[i + 2].v
    /\ sp.magnitudes[i + 1].v > 100

\* The frequencies of the peaks, ascending.
RECURSIVE MagnitudePeaksFrom(_, _)
MagnitudePeaksFrom(sp, i) ==
    IF i > Len(sp.magnitudes) - 2 THEN <<>>
    ELSE (IF IsMagnitudePeak(sp, i) THEN <<sp.frequencies[i + 1]>> ELSE <<>>)
         \o MagnitudePeaksFrom(sp, i + 1)

\* avgPeakDistance: the mean of the gaps between consecutive peaks, 0 when
\* there is no gap.  The gaps add up to last - first.
AvgPeakDistance(peaks) ==
    IF Len(peaks) <= 1 THEN 0
    ELSE Abs(peaks[Len(peaks)] - peaks[1]) \div (Len(peaks) - 1)

\* Math.min(1, avgPeakDistance / 1000), in thousandths.
DistinctnessScore(sp) == Min(1000, AvgPeakDistance(MagnitudePeaksFrom(sp, 1)))

\* 0.6 * snrScore + 0.4 * distinctnessScore
CalculateClarity(data, sp) ==
    IF SnrScore(data).nan THEN NaN
    ELSE Num((600 * SnrScore(data).v + 400 * DistinctnessScore(sp)) \div 1000)

\* calculateClarity; its call of analyzeFrequency is the one made above.
CalculateClarityCall ==
    /\ analysisPc = "pitched"
    /\ clarity' = Value(CalculateClarity(samples, spectrum))
    /\ analysisPc' = "done"
    /\ UNCHANGED <<samples, sampleRate, amplitude, windowedData, spectrum, pitch>>

(***************************************************************************)
(* The phoneme classifiers: PhonemeDetector.detect and the two versions    *)
(* of the hook's detectPhonemes.                                           *)
(*                                                                         *)
(* A buffer is the sequence of its frames; a frame is its energy (mean     *)
(* square, in thousandths) and its dominant frequency, in Hz: sampleRate   *)
(* / lag in detect, the frequency of the strongest bin in the second       *)
(* detectPhonemes.  The first detectPhonemes does not look at it: it       *)
(* takes the greatest frequency of the frame's spectrum, which the frame   *)
(* length and the sample rate fix.                                         *)
(***************************************************************************)
VARIABLES
    classifier,       \* "detect", "hook1" or "hook2"
    frames,           \* the frames not yet looked at
    phonemePc,        \* "off", "loop" or "done"
    phonemes,         \* the local array phonemes
    windowCount,      \* hook2: the frames classified so far
    phonemeResult,    \* what the classifier returned
    phonemeRate,      \* the sampleRate argument
    classified        \* per loud frame: its dominant frequency and what was pushed

phonemeVars ==
    <<classifier, frames, phonemePc, phonemes, windowCount, phonemeResult,
      phonemeRate, classified>>

PhonemeIdle ==
    /\ classifier = "detect"
    /\ frames = <<>>
    /\ phonemePc = "off"
    /\ phonemes = <<>>
    /\ windowCount = 0
    /\ phonemeResult = NoResult
    /\ phonemeRate = 0
    /\ classified = <<>>

Classifiers == {"detect", "hook1", "hook2"}

\* if (energy > 0.01), and energy > threshold with threshold 0.01 and 0.025.
EnergyThreshold(c) == IF c = "hook2" THEN 25 ELSE 10

\* The symbols a loud frame adds to phonemes.
FrameSymbols(c, freq) ==
    IF c = "detect"
    THEN IF freq > 80 /\ freq < 300 THEN <<"ah">>
         ELSE IF freq >= 300 /\ freq < 600 THEN <<"ee">>
         ELSE IF freq >= 600 /\ freq < 1000 THEN <<"oo">>
         ELSE <<>>
    ELSE IF c = "hook1"
    THEN IF freq > 1000 THEN <<"i">> ELSE IF freq > 500 THEN <<"a">> ELSE <<"r">>
    ELSE IF freq > 1400 THEN <<"i">>
         ELSE IF freq > 1000 THEN <<"e">>
         ELSE IF freq > 600 THEN <<"o">>
         ELSE IF freq > 300 THEN <<"u">>
         ELSE IF freq > 150 THEN <<"r">>
         ELSE <<"a">>

\* freqs.reduce((a, b) => Math.max(a, b), 0) over the frequencies of a
\* window of Math.floor(sampleRate * 0.03) samples: the last bin's, the
\* frequencies being ascending.
MaxFreq(rate) ==
    LET fftSize == FftSize((rate * 3) \div 100)
    IN  IF fftSize \div 2 = 0 THEN 0
        ELSE Frequency(fftSize \div 2 - 1, rate, fftSize)

\* The frequency a classifier puts through its bands.
ClassifiedFrequency(c, rate, window) ==
    IF c = "hook1" THEN MaxFreq(rate) ELSE window.freq

\* [...new Set(phonemes)]: the first occurrences, in order.
RECURSIVE Unique(_, _)
Unique(list, seen) ==
    IF list = <<>> THEN <<>>
    ELSE IF Head(list) \in seen THEN Unique(Tail(list), seen)
    ELSE <<Head(list)>> \o Unique(Tail(list), seen \cup {Head(list)})

\* .slice(0, 5) in detect and the first detectPhonemes, .slice(0, 2) in the
\* second.
SymbolCap(c) == IF c = "hook2" THEN 2 ELSE 5

\* uniquePhonemes.length > 0 ? uniquePhonemes : [...]; detect has no such
\* line.
Fallback(c) ==
    IF c = "hook1" THEN <<"a", "r", "g">>
    ELSE IF c = "hook2" THEN <<"a">>
    ELSE <<>>

ClassifierResult(c, list) ==
    LET uniquePhonemes == SubSeq(Unique(list, {}), 1, Min(SymbolCap(c), Len(Unique(list, {}))))
    IN  IF Len(uniquePhonemes) > 0 THEN uniquePhonemes ELSE Fallback(c)

\* The buffers: up to MaxFrames frames, each quiet, loud at one of six
\* frequencies, or between the two energy thresholds.
MaxFrames == 4
FrameKinds ==
    {[energy |-> 5, freq |-> 0], [energy |-> 20, freq |-> 700]}
    \cup {[energy |-> 30, freq |-> f] : f \in {100, 200, 400, 700, 1200, 1500}}

\* 24, 48 and 1323 samples to the window.
PhonemeRates == {800, 1600, 44100}

RECURSIVE FrameLists(_)
FrameLists(n) ==
    IF n = 0 THEN {<<>>}
    ELSE FrameLists(n - 1)
         \cup {<<k>> \o l : k \in FrameKinds, l \in {x \in FrameLists(n - 1) : Len(x) = n - 1}}

InitPhonemeCall ==
    /\ classifier \in Classifiers
    /\ frames \in FrameLists(MaxFrames)
    /\ phonemePc = "loop"
    /\ phonemes = <<>>
    /\ windowCount = 0
    /\ phonemeResult = NoResult
    /\ phonemeRate \in PhonemeRates
    /\ classified = <<>>

\* The loop goes on: there is a frame left and, in the second
\* detectPhonemes, windowCount < maxWindows.
LoopContinues ==
    /\ frames # <<>>
    /\ classifier = "hook2" => windowCount < 3

\* One iteration of the loop over the frames.
PhonemeFrame ==
    /\ phonemePc = "loop"
    /\ LoopContinues
    /\ IF Head(frames).energy > EnergyThreshold(classifier)
       THEN LET pushed == FrameSymbols(classifier,
                               ClassifiedFrequency(classifier, phonemeRate, Head(frames)))
            IN  /\ phonemes' = phonemes \o pushed
                /\ classified' =
                       Append(classified, [freq |-> Head(frames).freq, pushed |-> pushed])
                /\ windowCount' =
                       IF classifier = "hook2" THEN windowCount + 1 ELSE windowCount
       ELSE UNCHANGED <<phonemes, windowCount, classified>>
    /\ frames' = Tail(frames)
    /\ UNCHANGED <<classifier, phonemePc, phonemeResult, phonemeRate>>

\* After the loop: deduplicate, cut, fall back, return.
PhonemeReturn ==
    /\ phonemePc = "loop"
    /\ ~LoopContinues
    /\ phonemeResult' = Value(ClassifierResult(classifier, phonemes))
    /\ phonemePc' = "done"
    /\ UNCHANGED <<classifier, frames, phonemes, windowCount, phonemeRate, classified>>

(***************************************************************************)
(* predictSentiment (second version of the hook).                          *)
(*                                                                         *)
(* pitch is in Hz, amplitude and clarity in thousandths; a score is in     *)
(* units of 1/600000, which keeps every credit and the final               *)
(* 0.9 + score * 0.1 whole.                                                *)
(***************************************************************************)
One == 600000

Range(lo, hi) == [min |-> lo, max |-> hi]

\* const emotions = [...]
Emotions ==
    << [label |-> "sad", pitchRange |-> Range(160, 180), amplitudeRange |-> Range(0, 20),
        clarityRange |-> Range(500, 600), phonemes |-> {"e", "a"}],
       [label |-> "disgusted", pitchRange |-> Range(180, 200), amplitudeRange |-> Range(30, 60),
        clarityRange |-> Range(350, 500), phonemes |-> {"o", "r"}],
       [label |-> "happy", pitchRange |-> Range(290, 320), amplitudeRange |-> Range(60, 120),
        clarityRange |-> Range(550, 700), phonemes |-> {"i", "e"}],
       [label |-> "angry", pitchRange |-> Range(260, 300), amplitudeRange |-> Range(20, 300),
        clarityRange |-> Range(650, 800), phonemes |-> {"a", "r"}],
       [label |-> "fear", pitchRange |-> Range(340, 360), amplitudeRange |-> Range(100, 150),
        clarityRange |-> Range(400, 550), phonemes |-> {"i", "u"}] >>

\* The weights 0.6, 0.25, 0.14 and 0.01, and the scales 15, 0.02 and 0.1.
PitchWeight == 360000
AmplitudeWeight == 150000
ClarityWeight == 84000
PhonemeWeight == 6000
PitchScale == 15
AmplitudeScale == 20
ClarityScale == 100

\* A slip: the partial credit without its floor at 0.
FeatureCreditUnfloored(x, range, weight, scale) ==
    IF x >= range.min /\ x <= range.max THEN weight
    ELSE (weight * (scale - Min(Abs(x - range.min), Abs(x - range.max)))) \div scale

\* if (x >= min && x <= max) score += weight;
\* else score += weight * Math.max(0, 1 - distance / scale)
FeatureCredit(x, range, weight, scale) ==
    IF x >= range.min /\ x <= range.max THEN weight
    ELSE (weight * Max(0, scale - Min(Abs(x - range.min), Abs(x - range.max)))) \div scale

\* phonemes.filter((p) => emotion.phonemes.includes(p)).length
MatchingPhonemes(list, emotion) ==
    Cardinality({i \in DOMAIN list : list[i] \in emotion.phonemes})

\* 0.01 * (matchingPhonemes / Math.max(1, phonemes.length))
PhonemeCredit(list, emotion) ==
    (PhonemeWeight * MatchingPhonemes(list, emotion)) \div Max(1, Len(list))

\* The body of emotions.forEach: the score of one emotion.
EmotionScore(f, emotion) ==
    FeatureCredit(f.pitch, emotion.pitchRange, PitchWeight, PitchScale)
    + FeatureCredit(f.amplitude, emotion.amplitudeRange, AmplitudeWeight, AmplitudeScale)
    + FeatureCredit(f.clarity, emotion.clarityRange, ClarityWeight, ClarityScale)
    + PhonemeCredit(f.phonemes, emotion)

\* emotions.reduce((a, b) => (a.weight > b.weight ? a : b)), the
\* accumulator a and the next element b as indexes into emotions.
RECURSIVE TopEmotion(_, _, _)
TopEmotion(weights, a, b) ==
    IF b > Len(weights) THEN a
    ELSE TopEmotion(weights, IF weights[a] > weights[b] THEN a ELSE b, b + 1)

\* A slip: the top weight returned as it is.
RawScore(weight) == weight

\* 0.9 + Math.min(1, topEmotion.weight) * 0.1
NormalizedScore(weight) == (One \div 10) * 9 + Min(One, weight) \div 10

VARIABLES
    features,         \* the arguments pitch, amplitude, clarity and phonemes
    emotionWeights,   \* emotion.weight of the emotions scored so far
    sentimentPc,      \* "off", "scoring" or "done"
    sentiment,        \* the { label, score } produced
    producer,         \* "predictSentiment", "analyzeSentiment" or "analyzeAudio"
    emotionArgs       \* analyzeSentiment: the pitch, rms and energy it measured

sentimentVars == <<features, emotionWeights, sentimentPc, sentiment, producer, emotionArgs>>

NoEmotionArgs == [pitch |-> 0, rms |-> 0, energy |-> 0]

NoFeatures == [pitch |-> 0, amplitude |-> 0, clarity |-> 0, phonemes |-> <<>>]

SentimentIdle ==
    /\ features = NoFeatures
    /\ emotionWeights = <<>>
    /\ sentimentPc = "off"
    /\ sentiment = NoResult
    /\ producer = "predictSentiment"
    /\ emotionArgs = NoEmotionArgs

\* What analyzeAudio can hand over: a pitch of 0 or more, an amplitude and a
\* clarity between 0 and 1, and what detectPhonemes returns.
FeaturePitches == {0, 150, 170, 175, 180, 190, 250, 275, 295, 300, 310, 330, 350, 370}
FeatureAmplitudes == {0, 10, 20, 25, 28, 50, 60, 100, 120, 160, 1000}
FeatureClarities == {0, 300, 450, 500, 550, 600, 650, 700, 750, 1000}
FeaturePhonemes ==
    { <<"a">>, <<"i">>, <<"g">>, <<"e", "a">>, <<"o", "r">>, <<"i", "e">>,
      <<"a", "r">>, <<"i", "u">>, <<"a", "r", "g">> }

\* The variance of the byte spectrum analyzeSentiment calls energy.
Energies == {0, 60, 150, 250, 400, 2000}

\* A { label, score } with the score in the units of One.
Sentiment(label, tenThousandths) ==
    [kind |-> "returned", label |-> label, score |-> tenThousandths * (One \div 10000)]

\* detectEmotion(pitch, rms, energy), rms in thousandths.
DetectEmotion(args) ==
    IF args.pitch > 200 /\ args.pitch < 350 /\ args.rms > 25 /\ args.energy > 100
    THEN Sentiment("angry", 8000)
    ELSE IF args.pitch > 50 /\ args.pitch < 350 /\ args.rms > 100 /\ args.energy > 1000
    THEN Sentiment("fear", 7500)
    ELSE IF args.pitch > 150 /\ args.pitch < 350 /\ args.rms > 50 /\ args.energy > 200
    THEN Sentiment("happy", 7000)
    ELSE IF args.pitch < 200 /\ args.rms < 30 /\ args.energy > 50
    THEN Sentiment("sad", 7000)
    ELSE IF /\ args.pitch > 150 /\ args.pitch < 200 /\ args.rms > 30 /\ args.rms < 50
            /\ args.energy > 300
    THEN Sentiment("disgust", 7000)
    ELSE Sentiment("neutral", 6000)

\* The labels a { label, score } of the program can carry: those of the
\* emotions of predictSentiment and those detectEmotion and the fallback of
\* analyzeSentiment return.
CatalogLabels ==
    {Emotions[k].label : k \in DOMAIN Emotions}
    \cup {"angry", "fear", "happy", "sad", "disgust", "neutral"}

InitSentimentCall ==
    /\ \/ /\ producer = "predictSentiment"
          /\ features \in [pitch : FeaturePitches, amplitude : FeatureAmplitudes,
                           clarity : FeatureClarities, phonemes : FeaturePhonemes]
          /\ emotionArgs = NoEmotionArgs
       \/ /\ producer = "analyzeSentiment"
          /\ features = NoFeatures
          /\ emotionArgs \in [pitch : FeaturePitches, rms : FeatureAmplitudes,
                              energy : Energies]
       \/ /\ producer = "analyzeAudio"
          /\ features = NoFeatures
          /\ emotionArgs = NoEmotionArgs
    /\ emotionWeights = <<>>
    /\ sentimentPc = "scoring"
    /\ sentiment = NoResult

\* analyzeSentiment got through its try block: the result of detectEmotion.
AnalyzeSentimentReturns ==
    /\ sentimentPc = "scoring"
    /\ producer = "analyzeSentiment"
    /\ sentiment' = DetectEmotion(emotionArgs)
    /\ sentimentPc' = "done"
    /\ UNCHANGED <<features, emotionWeights, producer, emotionArgs>>

\* Something in the try block threw (the decode, the FFT): the catch block's
\* { label: 'neutral', score: 0.5 }.
AnalyzeSentimentFallsBack ==
    /\ sentimentPc = "scoring"
    /\ producer = "analyzeSentiment"
    /\ sentiment' = Sentiment("neutral", 5000)
    /\ sentimentPc' = "done"
    /\ UNCHANGED <<features, emotionWeights, producer, emotionArgs>>

\* The first version of analyzeAudio: const sentiment = { label: 'angry',
\* score: 0.8 }.
AnalyzeAudioSentiment ==
    /\ sentimentPc = "scoring"
    /\ producer = "analyzeAudio"
    /\ sentiment' = Sentiment("angry", 8000)
    /\ sentimentPc' = "done"
    /\ UNCHANGED <<features, emotionWeights, producer, emotionArgs>>

\* One iteration of emotions.forEach.
ScoreEmotion ==
    /\ sentimentPc = "scoring"
    /\ producer = "predictSentiment"
    /\ Len(emotionWeights) < Len(Emotions)
    /\ emotionWeights' =
          Append(emotionWeights, EmotionScore(features, Emotions[Len(emotionWeights) + 1]))
    /\ UNCHANGED <<features, sentimentPc, sentiment, producer, emotionArgs>>

\* The reduce and the return.
PredictSentimentReturn ==
    /\ sentimentPc = "scoring"
    /\ producer = "predictSentiment"
    /\ Len(emotionWeights) = Len(Emotions)
    /\ LET topEmotion == TopEmotion(emotionWeights, 1, 2)
       IN  sentiment' = [kind |-> "returned",
                         label |-> Emotions[topEmotion].label,
                         score |-> NormalizedScore(emotionWeights[topEmotion])]
    /\ sentimentPc' = "done"
    /\ UNCHANGED <<features, emotionWeights, producer, emotionArgs>>

(***************************************************************************)
(* applyEffects from the moment its decode has resolved: the chain of      *)
(* transforms, createBuffer, the WAV encoding and setProcessedAudio.  The  *)
(* first version of the hook skips a stage whose parameter is neutral, the *)
(* second always reduces noise and adjusts the volume and never stores     *)
(* null.                                                                   *)
(***************************************************************************)

\* What pitchShift(b, s) can produce.  A buffer shorter than a window has
\* every hop skipped and comes back as zeros; a longer one comes back at a
\* level the model leaves open, normalised, unless fft, ifft or the spread
\* in Math.max(...) throws.
PitchShiftResults(b, s) ==
    IF s = 0 THEN {Returned(Slice(b, 0, BufLen(b)))}
    ELSE LET outputLength == OutputLength(BufLen(b), s)
         IN  IF BufLen(b) < WindowSize THEN {Returned(Zeros(outputLength))}
             ELSE {Returned(Normalized(Run(outputLength, level))) :
                      level \in IF Peak(b) = 0 THEN {0} ELSE SynthLevels}
                  \cup {Thrown(PitchShiftError)}

\* view.setInt16(offset, x): x truncated and taken modulo 2^16.
ToInt16(x) == ((x + 32768) % 65536) - 32768

\* x * k / 1000 truncated towards zero.
TruncMul(x, k) == IF x < 0 THEN -(((-x) * k) \div 1000) ELSE (x * k) \div 1000

\* A slip: the sample scaled without being clamped first.
PcmValueUnclamped(v) == ToInt16(IF v < 0 THEN TruncMul(v, 32768) ELSE TruncMul(v, 32767))

\* const sample = Math.max(-1, Math.min(1, channelData[i]));
\* view.setInt16(offset, sample < 0 ? sample * 0x8000 : sample * 0x7FFF, true)
PcmValue(v) ==
    LET sample == Max(-1000, Min(1000, v))
    IN  ToInt16(IF sample < 0 THEN TruncMul(sample, 32768) ELSE TruncMul(sample, 32767))

RECURSIVE EncodePcm(_)
EncodePcm(b) ==
    IF b = <<>> THEN <<>>
    ELSE Concat(Run(Head(b).n, PcmValue(Head(b).v)), EncodePcm(Tail(b)))

\* A slip: the buffer created at a rate of the context's own choosing.
AudioBufferAtContextRate(channels, length, rate, data) ==
    [numberOfChannels |-> channels, length |-> length, sampleRate |-> 48000,
     channelData |-> data]

\* audioContext.createBuffer(channels, length, rate) with data copied into
\* channel 0.
AudioBuffer(channels, length, rate, data) ==
    [numberOfChannels |-> channels, length |-> length, sampleRate |-> rate,
     channelData |-> data]

\* The bytes of the WAV file of a buffer: the fields of its header, the
\* 16-bit values of its data chunk and its size.
Wav(buffer) ==
    LET numChannels == buffer.numberOfChannels
        length == buffer.length * numChannels * 2 + 44
    IN  [kind |-> "blob",
         size |-> length,
         riffSize |-> length - 8,
         fmtSize |-> 16,
         audioFormat |-> 1,
         numChannels |-> numChannels,
         sampleRate |-> buffer.sampleRate,
         byteRate |-> buffer.sampleRate * numChannels * 2,
         blockAlign |-> numChannels * 2,
         bitsPerSample |-> 16,
         dataSize |-> buffer.length * numChannels * 2,
         pcm |-> EncodePcm(buffer.channelData)]

VARIABLES
    hookVersion,      \* "first" or "second": which applyEffects runs
    effectArgs,       \* noiseReduction, pitchShift, volume and sentiment
    decoded,          \* audioBuffer: the channel data and sample rate decoded
    channelData,      \* let channelData
    effectsPc,        \* "off", "noise", "pitch", "volume", "encode" or "done"
    applied,          \* the stages that ran, in order
    stored            \* the argument of setProcessedAudio, if it was called

effectsVars == <<hookVersion, effectArgs, decoded, channelData, effectsPc, applied, stored>>

NoEffectArgs == [noiseReduction |-> 0, pitchShift |-> 0, volume |-> DefaultVolume,
                 sentiment |-> NULL]
NoBuffer == [channelData |-> <<>>, sampleRate |-> 0]
StoredNull == [kind |-> "null"]

EffectsIdle ==
    /\ hookVersion = "first"
    /\ effectArgs = NoEffectArgs
    /\ decoded = NoBuffer
    /\ channelData = <<>>
    /\ effectsPc = "off"
    /\ applied = <<>>
    /\ stored = NoResult

\* The decoded files: a few samples, some beyond [-1, 1], and one file
\* longer than a window.
DecodedBuffers ==
    { Run(1, 500),
      Concat(Run(1, 30), Run(2, -500)),
      Concat(Run(2, 1200), Run(1, -1500)),
      Concat(Run(WindowSize, 300), Run(HopSize, -40)) }
DecodedRates == {16000, 44100}
EffectNoise == {0, DefaultNoiseReduction, 100}
EffectPitch == {-7, -1, DefaultPitchShift, 1, 7}
EffectVolume == {0, 5, DefaultVolume, 20}
EffectSentiment == {NULL, "angry", "sad", "happy"}

InitEffectsCall ==
    /\ hookVersion \in {"first", "second"}
    /\ effectArgs \in [noiseReduction : EffectNoise, pitchShift : EffectPitch,
                       volume : EffectVolume, sentiment : EffectSentiment]
    /\ hookVersion = "second" => effectArgs.sentiment = NULL
    /\ decoded \in [channelData : DecodedBuffers, sampleRate : DecodedRates]
    /\ channelData = decoded.channelData
    /\ effectsPc = "noise"
    /\ applied = <<>>
    /\ stored = NoResult

\* finalPitchShift; the second version takes pitchShift as it is.
EffectFinalPitch ==
    IF hookVersion = "first"
    THEN FinalPitchShift(effectArgs.pitchShift, effectArgs.sentiment)
    ELSE effectArgs.pitchShift

\* if (noiseReduction !== 0) channelData = reduceNoise(channelData, ...)
NoiseStage ==
    /\ effectsPc = "noise"
    /\ IF hookVersion = "second" \/ effectArgs.noiseReduction # 0
       THEN /\ channelData' = ReduceNoise(channelData, effectArgs.noiseReduction)
            /\ applied' = Append(applied, "noise")
       ELSE UNCHANGED <<channelData, applied>>
    /\ effectsPc' = "pitch"
    /\ UNCHANGED <<hookVersion, effectArgs, decoded, stored>>

\* if (finalPitchShift !== 0) channelData = pitchShift(channelData, ...)
PitchStage ==
    /\ effectsPc = "pitch"
    /\ IF EffectFinalPitch # 0
       THEN \E result \in PitchShiftResults(channelData, EffectFinalPitch) :
                /\ result.kind = "returned"
                /\ channelData' = result.buffer
                /\ applied' = Append(applied, "pitch")
       ELSE UNCHANGED <<channelData, applied>>
    /\ effectsPc' = "volume"
    /\ UNCHANGED <<hookVersion, effectArgs, decoded, stored>>

\* pitchShift throws: the catch block of applyEffects logs, nothing is
\* stored.
PitchStageThrows ==
    /\ effectsPc = "pitch"
    /\ EffectFinalPitch # 0
    /\ \E result \in PitchShiftResults(channelData, EffectFinalPitch) :
           result.kind = "threw"
    /\ applied' = Append(applied, "threw")
    /\ effectsPc' = "done"
    /\ UNCHANGED <<hookVersion, effectArgs, decoded, channelData, stored>>

\* if (volume !== 1) channelData = adjustVolume(channelData, volume)
VolumeStage ==
    /\ effectsPc = "volume"
    /\ IF hookVersion = "second" \/ effectArgs.volume # DefaultVolume
       THEN /\ channelData' = AdjustVolume(channelData, effectArgs.volume)
            /\ applied' = Append(applied, "volume")
       ELSE UNCHANGED <<channelData, applied>>
    /\ effectsPc' = "encode"
    /\ UNCHANGED <<hookVersion, effectArgs, decoded, stored>>

\* The first version's test for "no effects applied".
NothingToApply ==
    /\ hookVersion = "first"
    /\ NoEffects(effectArgs.noiseReduction, EffectFinalPitch, effectArgs.volume)

\* setProcessedAudio(null); return;
StoreNull ==
    /\ effectsPc = "encode"
    /\ NothingToApply
    /\ stored' = StoredNull
    /\ effectsPc' = "done"
    /\ UNCHANGED <<hookVersion, effectArgs, decoded, channelData, applied>>

\* createBuffer, the copy, the WAV encoding and setProcessedAudio(blob).
StoreBlob ==
    /\ effectsPc = "encode"
    /\ ~NothingToApply
    /\ BufLen(channelData) > 0
    /\ stored' = Wav(AudioBuffer(1, BufLen(channelData), decoded.sampleRate, channelData))
    /\ effectsPc' = "done"
    /\ UNCHANGED <<hookVersion, effectArgs, decoded, channelData, applied>>

\* createBuffer refuses a length of 0 (NotSupportedError): caught and logged.
CreateBufferThrows ==
    /\ effectsPc = "encode"
    /\ ~NothingToApply
    /\ BufLen(channelData) = 0
    /\ applied' = Append(applied, "threw")
    /\ effectsPc' = "done"
    /\ UNCHANGED <<hookVersion, effectArgs, decoded, channelData, stored>>

(***************************************************************************)
(* The typed arrays of AudioProcessor as objects.  heap[k] is the content  *)
(* of the k-th Float32Array allocated; a caller holds some of them and     *)
(* passes them to the methods, which allocate their results and their      *)
(* locals.  AudioProcessor has no fields: what a call leaves behind is on  *)
(* the heap or nowhere.                                                    *)
(***************************************************************************)
VARIABLES
    heap,             \* the arrays allocated so far
    held,             \* the arrays the caller can pass: decoded or returned
    call,             \* the call last made, or NoCall
    callCount

heapVars == <<heap, held, call, callCount>>

NoCall == [method |-> "none", pc |-> "idle"]

HeapIdle ==
    /\ heap = <<>>
    /\ held = {}
    /\ call = NoCall
    /\ callCount = 0

MaxCalls == 3

\* The decoded buffers a caller starts with.
HeapBuffers ==
    { Concat(Run(1, 30), Run(2, -500)),
      Concat(Run(WindowSize, 300), Run(HopSize, -40)) }

InitHeap ==
    /\ heap \in {<<b>> : b \in HeapBuffers}
    /\ held = {1}
    /\ call = NoCall
    /\ callCount = 0

\* A local array of a method: only its length matters here.
Local(name, length) == <<[n |-> length, local |-> name]>>

\* A transform returned the array it allocated as number output.
TransformCall(method, given, arg, output) ==
    [method |-> method, given |-> given, arg |-> arg, before |-> heap,
     pc |-> "returned", phase |-> 0, output |-> output]

CanCall == callCount < MaxCalls /\ call.pc # "running"

\* reduceNoise: const result = new Float32Array(audioData.length); ...
\* return result
ReduceNoiseOn(given, a) ==
    /\ CanCall
    /\ given \in held
    /\ heap' = Append(heap, ReduceNoise(heap[given], a))
    /\ held' = held \cup {Len(heap) + 1}
    /\ call' = TransformCall("reduceNoise", given, a, Len(heap) + 1)
    /\ callCount' = callCount + 1

\* adjustVolume: const adjusted = new Float32Array(audioData.length); ...
\* return adjusted
AdjustVolumeOn(given, g) ==
    /\ CanCall
    /\ given \in held
    /\ heap' = Append(heap, AdjustVolume(heap[given], g))
    /\ held' = held \cup {Len(heap) + 1}
    /\ call' = TransformCall("adjustVolume", given, g, Len(heap) + 1)
    /\ callCount' = callCount + 1

\* A slip: the buffer itself handed back for 0 semitones.
SameArray(h, given) == given

\* audioData.slice(): the copy is a new array.
SliceOf(h, given) == Len(h) + 1

\* pitchShift up to its loop: the copy returned for 0 semitones, or
\* shiftedData and phase allocated, both zero-filled.
PitchShiftBegin(given, s) ==
    /\ CanCall
    /\ given \in held
    /\ IF s = 0
       THEN /\ heap' = Append(heap, Slice(heap[given], 0, BufLen(heap[given])))
            /\ held' = held \cup {SliceOf(heap, given)}
            /\ call' = TransformCall("pitchShift", given, s, SliceOf(heap, given))
       ELSE /\ heap' = heap \o << Zeros(OutputLength(BufLen(heap[given]), s)),
                                   Zeros(WindowSize \div 2 + 1) >>
            /\ held' = held
            /\ call' = [method |-> "pitchShift", given |-> given, arg |-> s,
                        before |-> heap, pc |-> "running",
                        phase |-> Len(heap) + 2, output |-> Len(heap) + 1]
    /\ callCount' = callCount + 1

\* The hops that analyse a frame: none when the input is shorter than a
\* window, else one per hopSize samples of output.
HopsAnalysed(length, s) ==
    IF length < WindowSize THEN 0
    ELSE (OutputLength(length, s) + HopSize - 1) \div HopSize

\* phase after the loop: phase[0] stays 0, every other entry has advanced
\* by its own step once per hop analysed; kept in steps.
PhaseAfter(hops) ==
    IF hops = 0 THEN Zeros(WindowSize \div 2 + 1)
    ELSE Concat(Run(1, 0), Run(WindowSize \div 2, hops))

\* The loop and the normalisation have run: shiftedData is returned.
PitchShiftEnd ==
    /\ call # NoCall
    /\ call.pc = "running"
    /\ \E result \in PitchShiftResults(heap[call.given], call.arg) :
           /\ result.kind = "returned"
           /\ heap' = [heap EXCEPT
                         ![call.output] = result.buffer,
                         ![call.phase] =
                             PhaseAfter(HopsAnalysed(BufLen(heap[call.given]), call.arg))]
    /\ held' = held \cup {call.output}
    /\ call' = [call EXCEPT !.pc = "returned"]
    /\ UNCHANGED callCount

\* fft, ifft or the spread threw after the first hop: nothing is returned.
PitchShiftFails ==
    /\ call # NoCall
    /\ call.pc = "running"
    /\ \E result \in PitchShiftResults(heap[call.given], call.arg) :
           result.kind = "threw"
    /\ heap' = [heap EXCEPT ![call.phase] = PhaseAfter(1)]
    /\ call' = [call EXCEPT !.pc = "threw"]
    /\ UNCHANGED <<held, callCount>>

\* The arrays the analysis methods allocate: windowed and signal in
\* analyzeFrequency, these and hps in detectPitch, the noise-reduced copy and
\* those of analyzeFrequency in calculateClarity, none in getAmplitude.
AnalysisMethods == {"getAmplitude", "analyzeFrequency", "detectPitch", "calculateClarity"}

FrequencyLocals(length) ==
    << Local("windowed", length), Local("signal", FftSize(length)) >>

Locals(method, b) ==
    IF method = "getAmplitude" THEN <<>>
    ELSE IF method = "analyzeFrequency" THEN FrequencyLocals(BufLen(b))
    ELSE IF method = "detectPitch"
    THEN FrequencyLocals(BufLen(b)) \o <<Local("hps", FftSize(BufLen(b)) \div 2)>>
    ELSE <<ReduceNoise(b, 50)>> \o FrequencyLocals(BufLen(b))

\* An analysis method called on a held array: it returns numbers.
AnalysisOn(method, given) ==
    /\ CanCall
    /\ given \in held
    /\ heap' = heap \o Locals(method, heap[given])
    /\ call' = [method |-> method, given |-> given, arg |-> 0, before |-> heap,
                pc |-> "returned", phase |-> 0, output |-> 0]
    /\ callCount' = callCount + 1
    /\ UNCHANGED held

(***************************************************************************)
(* togglePlayback: isPlaying, sourceNodeRef and the source nodes.  A file  *)
(* has been uploaded, so the audio context exists.  A call that starts     *)
(* playback awaits its decode; clicks, decode completions and 'ended'      *)
(* events interleave as the event loop lets them.                          *)
(***************************************************************************)
VARIABLES
    playbackVersion,  \* "first" or "second": which togglePlayback runs
    isPlaying,
    sourceNodeRef,    \* the number of the node sourceNodeRef.current is, or 0
    nodes,            \* the source nodes created, in order
    decoding,         \* the togglePlayback calls awaiting their decode
    toggles           \* the togglePlayback calls made

playbackVars == <<playbackVersion, isPlaying, sourceNodeRef, nodes, decoding, toggles>>

PlaybackIdle ==
    /\ playbackVersion = "first"
    /\ isPlaying = FALSE
    /\ sourceNodeRef = 0
    /\ nodes = <<>>
    /\ decoding = 0
    /\ toggles = 0

MaxToggles == 3

InitPlayback ==
    /\ playbackVersion \in {"first", "second"}
    /\ isPlaying = FALSE
    /\ sourceNodeRef = 0
    /\ nodes = <<>>
    /\ decoding = 0
    /\ toggles = 0

\* A node that start() was called on.  state is "playing", "stopped" (stop()
\* was called, its 'ended' event is still to come) or "over" (its 'ended'
\* event has been handled).
Started == [state |-> "playing", connected |-> TRUE]

\* sourceNodeRef.current?.stop(), and in the first version ?.disconnect().
StopCurrent(ns, ref, version) ==
    IF ref = 0 THEN ns
    ELSE [ns EXCEPT ![ref].state = IF @ = "playing" THEN "stopped" ELSE @,
                    ![ref].connected = IF version = "first" THEN FALSE ELSE @]

\* A click on Play/Pause: togglePlayback up to its return or its first await.
TogglePlayback ==
    /\ toggles < MaxToggles
    /\ toggles' = toggles + 1
    /\ IF isPlaying
       THEN /\ nodes' = StopCurrent(nodes, sourceNodeRef, playbackVersion)
            /\ sourceNodeRef' = 0
            /\ isPlaying' = FALSE
            /\ UNCHANGED decoding
       ELSE /\ decoding' = decoding + 1
            /\ UNCHANGED <<nodes, sourceNodeRef, isPlaying>>
    /\ UNCHANGED playbackVersion

\* The decode of a call resolves: createBufferSource, connect, start,
\* setIsPlaying(true), and onended is set.
PlaybackDecoded ==
    /\ decoding > 0
    /\ decoding' = decoding - 1
    /\ nodes' = Append(nodes, Started)
    /\ sourceNodeRef' = Len(nodes) + 1
    /\ isPlaying' = TRUE
    /\ UNCHANGED <<playbackVersion, toggles>>

\* The decode rejects: caught and logged.
PlaybackDecodeFails ==
    /\ decoding > 0
    /\ decoding' = decoding - 1
    /\ UNCHANGED <<playbackVersion, isPlaying, sourceNodeRef, nodes, toggles>>

\* The onended handler of node n: it clears whatever sourceNodeRef refers to
\* now, in the first version after disconnecting it.
OnEnded(n) ==
    /\ nodes' = [k \in DOMAIN nodes |->
                    IF k = n THEN [nodes[k] EXCEPT !.state = "over"]
                    ELSE IF k = sourceNodeRef /\ playbackVersion = "first"
                    THEN [nodes[k] EXCEPT !.connected = FALSE]
                    ELSE nodes[k]]
    /\ sourceNodeRef' = 0
    /\ isPlaying' = FALSE
    /\ UNCHANGED <<playbackVersion, decoding, toggles>>

\* Node n plays to its end and its 'ended' event is handled.
NodeEnds(n) ==
    /\ nodes[n].state = "playing"
    /\ OnEnded(n)

\* The 'ended' event of a node that stop() was called on.
StoppedNodeEnded(n) ==
    /\ nodes[n].state = "stopped"
    /\ OnEnded(n)

(***************************************************************************)
(* Properties of pitchShift and reduceNoise                                *)
(***************************************************************************)
\* Two buffers hold the same samples.
SameSamples(a, b) ==
    /\ BufLen(a) = BufLen(b)
    /\ \A k \in 0..(BufLen(a) - 1) : SampleAt(a, k) = SampleAt(b, k)

PitchReturned == pitchPc = "done" /\ pitchResult.kind = "returned"

\* C5: when a step inside pitchShift's try block throws, the call throws
\* 'Failed to apply pitch shift': it returns neither its input nor the
\* buffer it had filled so far.
C5_FailureIsRethrown ==
    raised # "none" =>
        /\ pitchPc = "done"
        /\ pitchResult.kind = "threw"
        /\ pitchResult.message = PitchShiftError

\* The inverse transform threw after an earlier hop had written signal.
C5_Witness ==
    /\ raised = "ifft"
    /\ Peak(shiftedData) > 0
    /\ pitchResult.kind = "threw"

\* C6: pitchShift with 0 semitones returns a buffer with the samples of its
\* input, whatever the input's length (empty and shorter than one window
\* included), and does not throw.
C6_ZeroSemitonesIsIdentity ==
    (pitchPc = "done" /\ semitones = 0) =>
        /\ pitchResult.kind = "returned"
        /\ SameSamples(pitchResult.buffer, audioData)

\* A call with 0 semitones on a buffer with signal, shorter than one window.
C6_Witness ==
    /\ PitchReturned
    /\ semitones = 0
    /\ BufLen(audioData) \in 1..(WindowSize - 1)
    /\ Peak(audioData) > 0

\* C7: when semitones is not 0 and the input has a sample that is not 0,
\* the peak of the returned buffer is 0.95.
C7_PeakIsHeadroom ==
    (PitchReturned /\ semitones # 0 /\ Peak(audioData) > 0) =>
        Peak(pitchResult.buffer) = Headroom

\* The returned buffer has floor(input length / shiftFactor) samples.
LengthIsFloorOfQuotient ==
    LET m == BufLen(pitchResult.buffer)
    IN  /\ TimesAtMost(m, semitones, BufLen(audioData))
        /\ ~TimesAtMost(m + 1, semitones, BufLen(audioData))

\* C8 (as stated): the output has floor(L / shiftFactor) samples, and after
\* shifting by s and then by -s the length is the original length within a
\* small relative tolerance (5 percent here).
C8_RoundTripRelative ==
    (PitchReturned /\ semitones # 0) =>
        /\ LengthIsFloorOfQuotient
        /\ pass = 2 =>
            20 * Abs(BufLen(pitchResult.buffer) - originalLength) <= originalLength

\* C8 (amended): the output has floor(L / shiftFactor) samples, and after
\* shifting by s and then by -s, |s| <= 12, the buffer is at most 2 samples
\* shorter than the original and never longer.
C8_RoundTripWithinTwoSamples ==
    (PitchReturned /\ semitones # 0) =>
        /\ LengthIsFloorOfQuotient
        /\ pass = 2 =>
            /\ BufLen(pitchResult.buffer) <= originalLength
            /\ BufLen(pitchResult.buffer) >= originalLength - 2

\* A buffer of at least one window came back from the round trip shorter.
C8_Witness ==
    /\ PitchReturned
    /\ pass = 2
    /\ originalLength >= WindowSize
    /\ BufLen(pitchResult.buffer) = originalLength - 2

\* C9: every frame a hop analyses lies inside the input, 0 <= start and
\* start + windowSize <= input length, a buffer that cannot hold such a frame
\* has every hop skipped without a read, and every write of a hop falls
\* inside [0, outputLength).
C9_FramesAndWritesInBounds ==
    /\ frame.analysed =>
        /\ 0 <= frame.start
        /\ frame.start + WindowSize <= BufLen(audioData)
        /\ frame.read = WindowSize
    /\ BufLen(audioData) < WindowSize => ~frame.analysed /\ ~written.wrote
    /\ written.wrote =>
        /\ 0 <= written.from
        /\ written.from < written.to
        /\ written.to <= BufLen(shiftedData)

\* The last hop of a call: its frame is the clamped last frame of the input
\* and its block of writes is cut at the end of the output.
C9_Witness ==
    /\ frame.analysed
    /\ frame.start > 0
    /\ frame.start = BufLen(audioData) - WindowSize
    /\ written.wrote
    /\ written.to = BufLen(shiftedData)
    /\ written.to - written.from < HopSize

RECURSIVE SumSquares(_)
SumSquares(b) ==
    IF b = <<>> THEN 0
    ELSE Head(b).n * Head(b).v * Head(b).v + SumSquares(Tail(b))

C13_GainIsClamped ==
    volumePc = "done" =>
        volumeResult.buffer = AdjustVolume(audioData, Max(0, Min(30, gain)))

(***************************************************************************)
(* Properties of the analysis methods                                      *)
(***************************************************************************)
\* C14: for a buffer of N >= 2 samples analyzeFrequency transforms the
\* largest power of two of samples that is <= N; frequencies and magnitudes
\* have half that many entries, frequencies[i] = i * sampleRate / fftSize,
\* strictly ascending, and every magnitude is a number >= 0, never NaN.
C14_SpectrumShape ==
    (spectrum.kind = "returned" /\ Len(samples) >= 2) =>
        \E e \in 0..Len(samples) :
            LET size == 2 ^ e
                f == spectrum.frequencies
                m == spectrum.magnitudes
            IN  /\ size <= Len(samples)
                /\ Len(samples) < 2 * size
                /\ Len(f) = size \div 2
                /\ Len(m) = size \div 2
                /\ \A k \in DOMAIN f : f[k] * size = (k - 1) * sampleRate
                /\ \A k \in DOMAIN f : k > 1 => f[k - 1] < f[k]
                /\ \A k \in DOMAIN m : ~m[k].nan /\ m[k].v >= 0

\* 17 samples, one of them NaN: 16 are transformed, 8 bins come back.
C14_Witness ==
    /\ spectrum.kind = "returned"
    /\ Len(samples) = 17
    /\ HasNaN(samples)
    /\ Len(spectrum.magnitudes) = 8

\* C15: analyzeFrequency on a buffer of 0 or 1 samples returns an empty
\* spectrum and does not fail.
C15_ShortBufferGivesEmptySpectrum ==
    (Len(samples) <= 1 /\ analysisPc \notin {"called", "measured", "windowed"}) =>
        /\ spectrum.kind = "returned"
        /\ spectrum.frequencies = <<>>
        /\ spectrum.magnitudes = <<>>

\* C16: applyHannWindow returns as many samples as it is given, and the
\* sample of a one-sample buffer unchanged (weight 1).
C16_HannOfOneSample ==
    windowedData.kind = "returned" =>
        /\ Len(windowedData.value) = Len(samples)
        /\ Len(samples) = 1 => windowedData.value[1] = samples[1]

\* The bins detectPitch ranks, and the first in rank of a set of them:
\* the greatest value, the lowest bin among equals.
PitchCandidates(sp) == {i \in 1..(Len(sp.frequencies) - 2) : IsHpsPeak(sp, i)}
InVoiceBand(sp, i) == sp.frequencies[i + 1] >= 50 /\ sp.frequencies[i + 1] <= 500
FirstInRank(sp, among) ==
    CHOOSE i \in among :
        \A j \in among : Hps(sp, j) < Hps(sp, i) \/ (Hps(sp, j) = Hps(sp, i) /\ j >= i)

\* C17: detectPitch returns the frequency of the highest-valued candidate
\* in [50, 500] Hz if there is one, else that of the highest-valued
\* candidate, else 0; among candidates of one value the lower bin comes
\* first.  The result is >= 0.
C17_PitchIsBestCandidate ==
    pitch.kind = "returned" =>
        LET all == PitchCandidates(spectrum)
            voiced == {i \in all : InVoiceBand(spectrum, i)}
        IN  /\ pitch.value >= 0
            /\ pitch.value =
                IF voiced # {} THEN spectrum.frequencies[FirstInRank(spectrum, voiced) + 1]
                ELSE IF all # {} THEN spectrum.frequencies[FirstInRank(spectrum, all) + 1]
                ELSE 0

\* The candidate in the band is returned although a candidate outside the
\* band has a greater value.
C17_Witness ==
    /\ pitch.kind = "returned"
    /\ \E i, j \in PitchCandidates(spectrum) :
        /\ InVoiceBand(spectrum, i)
        /\ ~InVoiceBand(spectrum, j)
        /\ Hps(spectrum, j) > Hps(spectrum, i)
        /\ pitch.value = spectrum.frequencies[i + 1]

\* C18: getAmplitude returns a value in [0, 1] for every buffer, the empty
\* buffer included.
C18_AmplitudeInUnitRange ==
    (amplitude.kind = "returned" /\ ~HasNaN(samples)) =>
        /\ ~amplitude.value.nan
        /\ amplitude.value.v >= 0
        /\ amplitude.value.v <= 1000

\* C19: calculateClarity returns a value in [0, 1] for every buffer.
C19_ClarityInUnitRange ==
    (analysisPc \in {"done", "failed"} /\ ~HasNaN(samples)) =>
        /\ clarity.kind = "returned"
        /\ ~clarity.value.nan
        /\ clarity.value.v >= 0
        /\ clarity.value.v <= 1000

\* C20: every phoneme classifier returns a sequence without duplicates, its
\* symbols in the order of their first occurrence over the frames, at most
\* 5 of them and at least one: a fallback when no frame yields a symbol.
C20_PhonemesNeverEmpty ==
    phonemePc = "done" =>
        LET result == phonemeResult.value
        IN  /\ \A i, j \in DOMAIN result : i # j => result[i] # result[j]
            /\ Len(result) <= 5
            /\ Len(result) >= 1
            /\ phonemes # <<>> =>
                result = SubSeq(Unique(phonemes, {}), 1, Len(result))

\* C21: the symbol a loud frame emits is the one its dominant frequency has
\* in the classifier's bands, and two loud frames whose dominant frequencies
\* lie in different bands emit different symbols.
C21_SymbolFollowsDominantFrequency ==
    \A i, j \in DOMAIN classified :
        /\ classified[i].pushed = FrameSymbols(classifier, classified[i].freq)
        /\ FrameSymbols(classifier, classified[i].freq)
               # FrameSymbols(classifier, classified[j].freq)
             => classified[i].pushed # classified[j].pushed

\* The distance from x to the nearest boundary of a range x lies outside of.
DistanceOutside(x, range) == IF x < range.min THEN range.min - x ELSE x - range.max

\* weight inside the range, weight * max(0, 1 - distance / scale) outside.
StatedCredit(x, range, weight, scale) ==
    IF x >= range.min /\ x <= range.max THEN weight
    ELSE IF DistanceOutside(x, range) >= scale THEN 0
    ELSE weight - (weight * DistanceOutside(x, range)) \div scale

InRange(x, range) == x >= range.min /\ x <= range.max

\* C22: each emotion's score is the sum of its feature credits (the full
\* weight inside the range, a linearly decaying share outside, never below
\* 0), the weights add up to 1, the score is 1 when every feature is in range
\* and every phoneme matches, and every score lies in [0, 1].
C22_ScoreIsSumOfCredits ==
    /\ PitchWeight + AmplitudeWeight + ClarityWeight + PhonemeWeight = One
    /\ \A k \in DOMAIN emotionWeights :
        LET emotion == Emotions[k]
        IN  /\ emotionWeights[k] =
                  StatedCredit(features.pitch, emotion.pitchRange, PitchWeight, PitchScale)
                  + StatedCredit(features.amplitude, emotion.amplitudeRange,
                                 AmplitudeWeight, AmplitudeScale)
                  + StatedCredit(features.clarity, emotion.clarityRange,
                                 ClarityWeight, ClarityScale)
                  + PhonemeCredit(features.phonemes, emotion)
            /\ emotionWeights[k] >= 0
            /\ emotionWeights[k] <= One
            /\ ( /\ InRange(features.pitch, emotion.pitchRange)
                 /\ InRange(features.amplitude, emotion.amplitudeRange)
                 /\ InRange(features.clarity, emotion.clarityRange)
                 /\ \A i \in DOMAIN features.phonemes :
                        features.phonemes[i] \in emotion.phonemes )
               => emotionWeights[k] = One

\* An emotion scored 1, another scored a partial credit for a feature out of
\* range, and a third got nothing for a feature far out of range.
C22_Witness ==
    /\ sentimentPc = "done"
    /\ \E k \in DOMAIN emotionWeights : emotionWeights[k] = One
    /\ \E k \in DOMAIN emotionWeights :
           /\ ~InRange(features.pitch, Emotions[k].pitchRange)
           /\ DistanceOutside(features.pitch, Emotions[k].pitchRange) < PitchScale
    /\ \E k \in DOMAIN emotionWeights :
           DistanceOutside(features.pitch, Emotions[k].pitchRange) > PitchScale

\* C23: predictSentiment returns the emotion with the highest score and, among
\* several with the highest score, the one declared first.
C23_EarliestHighestWins ==
    sentimentPc = "done" =>
        \E k \in DOMAIN Emotions :
            /\ sentiment.label = Emotions[k].label
            /\ \A j \in DOMAIN Emotions : emotionWeights[j] <= emotionWeights[k]
            /\ \A j \in 1..(k - 1) : emotionWeights[j] < emotionWeights[k]

C25_SampleRateOfOriginal ==
    (effectsPc = "done" /\ stored.kind = "blob") =>
        /\ stored.sampleRate = decoded.sampleRate
        /\ stored.byteRate = 2 * decoded.sampleRate
        /\ stored.dataSize = 2 * BufLen(channelData)
        /\ BufLen(stored.pcm) = BufLen(channelData)

\* A blob was stored after a pitch shift that changed the number of samples.
C25_Witness ==
    /\ effectsPc = "done"
    /\ stored.kind = "blob"
    /\ \E k \in DOMAIN applied : applied[k] = "pitch"
    /\ BufLen(channelData) # BufLen(decoded.channelData)
    /\ BufLen(decoded.channelData) >= WindowSize

\* The 16-bit value of a sample: clamped to [-1, 1], times 0x8000 when
\* negative and times 0x7FFF otherwise.
StatedPcm(v) ==
    IF v <= -1000 THEN -32768
    ELSE IF v >= 1000 THEN 32767
    ELSE IF v < 0 THEN -(((-v) * 32768) \div 1000)
    ELSE (v * 32767) \div 1000

\* C27: the WAV file of N samples is 16-bit mono PCM of 44 + 2N bytes, its
\* RIFF size 36 + 2N, its data size 2N, its block align 2 and its byte rate
\* twice the sample rate; each sample is clamped to [-1, 1] and scaled by
\* 0x8000 when negative and 0x7FFF otherwise, which keeps it in
\* [-32768, 32767].
C27_WavLayout ==
    (effectsPc = "done" /\ stored.kind = "blob") =>
        LET N == BufLen(channelData)
        IN  /\ stored.size = 44 + 2 * N
            /\ stored.riffSize = 36 + 2 * N
            /\ stored.dataSize = 2 * N
            /\ stored.fmtSize = 16
            /\ stored.audioFormat = 1
            /\ stored.numChannels = 1
            /\ stored.bitsPerSample = 16
            /\ stored.blockAlign = 2
            /\ stored.byteRate = 2 * stored.sampleRate
            /\ BufLen(stored.pcm) = N
            /\ \A i \in 0..(N - 1) :
                   /\ SampleAt(stored.pcm, i) = StatedPcm(SampleAt(channelData, i))
                   /\ SampleAt(stored.pcm, i) >= -32768
                   /\ SampleAt(stored.pcm, i) <= 32767

\* A file was encoded that holds a sample above 1 and a sample below -1.
C27_Witness ==
    /\ effectsPc = "done"
    /\ stored.kind = "blob"
    /\ \E i \in 0..(BufLen(channelData) - 1) :
           /\ SampleAt(channelData, i) > 1000
           /\ SampleAt(stored.pcm, i) = 32767
    /\ \E j \in 0..(BufLen(channelData) - 1) :
           /\ SampleAt(channelData, j) < -1000
           /\ SampleAt(stored.pcm, j) = -32768

\* The final pitch shift: the requested one plus 1 for 'angry', minus 1 for
\* 'sad'.
StatedFinalPitch ==
    effectArgs.pitchShift
    + (IF effectArgs.sentiment = "angry" THEN 1
       ELSE IF effectArgs.sentiment = "sad" THEN -1 ELSE 0)

\* The stages that are not skipped, in their order.
StatedStages ==
    (IF effectArgs.noiseReduction # 0 THEN <<"noise">> ELSE <<>>)
    \o (IF StatedFinalPitch # 0 THEN <<"pitch">> ELSE <<>>)
    \o (IF effectArgs.volume # DefaultVolume THEN <<"volume">> ELSE <<>>)

\* What the chain of the stages can make of the decoded samples.
StatedChain ==
    LET reduced == IF effectArgs.noiseReduction # 0
                   THEN ReduceNoise(decoded.channelData, effectArgs.noiseReduction)
                   ELSE decoded.channelData
        shifted == IF StatedFinalPitch # 0
                   THEN {r.buffer : r \in {x \in PitchShiftResults(reduced, StatedFinalPitch) :
                                              x.kind = "returned"}}
                   ELSE {reduced}
    IN  {IF effectArgs.volume # DefaultVolume THEN AdjustVolume(b, effectArgs.volume) ELSE b :
            b \in shifted}

Threw == \E k \in DOMAIN applied : applied[k] = "threw"

Transforms == {"reduceNoise", "pitchShift", "adjustVolume"}

\* C26: no method writes to an array that existed when it was called, the
\* one it was given included; a transform returns an array it allocated,
\* also pitchShift for 0 semitones; and pitchShift accumulates its phases in
\* an array it allocated in this call, all zeros when its loop starts.
C26_InputsUntouched ==
    call # NoCall =>
        /\ \A k \in DOMAIN call.before : heap[k] = call.before[k]
        /\ (call.method \in Transforms /\ call.pc = "returned") =>
              /\ call.output \in DOMAIN heap
              /\ call.output \notin DOMAIN call.before
              /\ call.output # call.given
        /\ (call.method = "pitchShift" /\ call.arg # 0) =>
              /\ call.phase \notin DOMAIN call.before
              /\ call.pc = "running" => heap[call.phase] = Zeros(WindowSize \div 2 + 1)

\* pitchShift is in its second call, on a buffer it analyses frames of,
\* after a first call that left its phases advanced.
C26_Witness ==
    /\ call # NoCall
    /\ call.method = "pitchShift"
    /\ call.pc = "running"
    /\ BufLen(heap[call.given]) >= WindowSize
    /\ \E k \in DOMAIN call.before : call.before[k] = PhaseAfter(1)

\* C30: the noise power calculateClarity estimates is 0 for every buffer it
\* is called on, since its noise-reduced copy holds no sample that is not 0
\* and below 0.01.
C30_NoisePowerIsZero ==
    analysisPc = "done" => NoisePower(samples) = Num(0)

\* The nodes that were started and have neither been stopped nor ended.
Sounding == {n \in DOMAIN nodes : nodes[n].state = "playing"}

\* C28: at most one source node is started and not yet stopped or ended,
\* isPlaying is true exactly when there is one, and it is the node
\* sourceNodeRef refers to: the 'ended' event of a replaced node clears
\* neither.
C28_OneNodePlaying ==
    /\ Cardinality(Sounding) <= 1
    /\ isPlaying <=> Sounding # {}
    /\ isPlaying => sourceNodeRef \in Sounding

vars ==
    <<hookVars, audioData, pitchVars, noiseVars, volumeVars, analysisVars,
      phonemeVars, sentimentVars, effectsVars, heapVars, playbackVars>>

(***************************************************************************)
(* The application: the hook and App's handlers.                           *)
(***************************************************************************)
Init ==
    /\ audioData = <<>>
    /\ PitchIdle
    /\ NoiseIdle
    /\ VolumeIdle
    /\ AnalysisIdle
    /\ PhonemeIdle
    /\ SentimentIdle
    /\ EffectsIdle
    /\ HeapIdle
    /\ PlaybackIdle
    /\ InitHook

ProcessorIdle ==
    UNCHANGED <<audioData, pitchVars, noiseVars, volumeVars, analysisVars,
                phonemeVars, sentimentVars, effectsVars, heapVars,
                playbackVars>>

Next ==
    \/ \E v \in NoiseValues : SetNoiseReduction(v) /\ ProcessorIdle
    \/ \E v \in PitchValues : SetPitchShift(v) /\ ProcessorIdle
    \/ \E v \in VolumeValues : SetVolume(v) /\ ProcessorIdle
    \/ \E f \in Files : HandleFileUpload(f) /\ ProcessorIdle
    \/ \E t \in DOMAIN tasks, ok \in BOOLEAN : UploadDecoded(t, ok) /\ ProcessorIdle
    \/ HandleApplyEffects /\ ProcessorIdle
    \/ \E t \in DOMAIN tasks, d \in BOOLEAN, s \in BOOLEAN : EffectsDecoded(t, d, s) /\ ProcessorIdle
    \/ HandleAnalyze /\ ProcessorIdle
    \/ \E t \in DOMAIN tasks, ok \in BOOLEAN : AnalyzeDecoded(t, ok) /\ ProcessorIdle
    \/ HandleResetEffects /\ ProcessorIdle
    \/ \E t \in DOMAIN tasks, ok \in BOOLEAN : ResetDecoded(t, ok) /\ ProcessorIdle

Spec == Init /\ [][Next]_vars

(***************************************************************************)
(* pitchShift called on its own, and called again on what it returned.     *)
(***************************************************************************)
InitPitch ==
    /\ InitHook
    /\ NoiseIdle
    /\ VolumeIdle
    /\ AnalysisIdle
    /\ PhonemeIdle
    /\ SentimentIdle
    /\ EffectsIdle
    /\ HeapIdle
    /\ PlaybackIdle
    /\ InitPitchCall

HookIdle ==
    UNCHANGED <<hookVars, noiseVars, volumeVars, analysisVars, phonemeVars,
                sentimentVars, effectsVars, heapVars, playbackVars>>

NextPitch ==
    \/ PitchShiftEnter /\ HookIdle
    \/ HopSkipped /\ HookIdle
    \/ \E level \in SynthLevels : HopShifted(level) /\ HookIdle
    \/ \E step \in {"fft", "ifft"} : HopThrows(step) /\ HookIdle
    \/ NormalizeAndReturn /\ HookIdle
    \/ NormalizeThrows /\ HookIdle
    \/ ShiftBack /\ HookIdle

SpecPitch == InitPitch /\ [][NextPitch]_vars

(***************************************************************************)
(* reduceNoise called on its own, and called again on what it returned.    *)
(***************************************************************************)
InitNoise ==
    /\ InitHook
    /\ PitchIdle
    /\ VolumeIdle
    /\ AnalysisIdle
    /\ PhonemeIdle
    /\ SentimentIdle
    /\ EffectsIdle
    /\ HeapIdle
    /\ PlaybackIdle
    /\ InitNoiseCall

NoiseRestIdle ==
    UNCHANGED <<hookVars, pitchVars, volumeVars, analysisVars, phonemeVars,
                sentimentVars, effectsVars, heapVars, playbackVars>>

NextNoise ==
    \/ ReduceNoiseCall /\ NoiseRestIdle
    \/ \E a \in Amounts : ReduceNoiseAgain(a) /\ NoiseRestIdle

SpecNoise == InitNoise /\ [][NextNoise]_vars

(***************************************************************************)
(* adjustVolume called on its own.                                         *)
(***************************************************************************)
InitVolume ==
    /\ InitHook
    /\ PitchIdle
    /\ NoiseIdle
    /\ AnalysisIdle
    /\ PhonemeIdle
    /\ SentimentIdle
    /\ EffectsIdle
    /\ HeapIdle
    /\ PlaybackIdle
    /\ InitVolumeCall

VolumeRestIdle ==
    UNCHANGED <<hookVars, pitchVars, noiseVars, analysisVars, phonemeVars,
                sentimentVars, effectsVars, heapVars, playbackVars>>

NextVolume ==
    AdjustVolumeCall /\ VolumeRestIdle

SpecVolume == InitVolume /\ [][NextVolume]_vars

(***************************************************************************)
(* The analysis methods called on one buffer, in analyzeAudio's order      *)
(* after getAmplitude.                                                     *)
(***************************************************************************)
InitAnalysis ==
    /\ InitHook
    /\ audioData = <<>>
    /\ PitchIdle
    /\ NoiseIdle
    /\ VolumeIdle
    /\ PhonemeIdle
    /\ SentimentIdle
    /\ EffectsIdle
    /\ HeapIdle
    /\ PlaybackIdle
    /\ InitAnalysisCall

OthersIdle ==
    UNCHANGED <<hookVars, audioData, pitchVars, noiseVars, volumeVars,
                phonemeVars, sentimentVars, effectsVars, heapVars,
                playbackVars>>

NextAnalysis ==
    \/ GetAmplitudeCall /\ OthersIdle
    \/ ApplyHannWindowCall /\ OthersIdle
    \/ AnalyzeFrequencyReturns /\ OthersIdle
    \/ AnalyzeFrequencyThrows /\ OthersIdle
    \/ DetectPitchCall /\ OthersIdle
    \/ CalculateClarityCall /\ OthersIdle

SpecAnalysis == InitAnalysis /\ [][NextAnalysis]_vars

(***************************************************************************)
(* A phoneme classifier called on one buffer.                              *)
(***************************************************************************)
InitPhoneme ==
    /\ InitHook
    /\ audioData = <<>>
    /\ PitchIdle
    /\ NoiseIdle
    /\ VolumeIdle
    /\ AnalysisIdle
    /\ SentimentIdle
    /\ EffectsIdle
    /\ HeapIdle
    /\ PlaybackIdle
    /\ InitPhonemeCall

RestIdle ==
    UNCHANGED <<hookVars, audioData, pitchVars, noiseVars, volumeVars,
                analysisVars, sentimentVars, effectsVars, heapVars,
                playbackVars>>

NextPhoneme ==
    \/ PhonemeFrame /\ RestIdle
    \/ PhonemeReturn /\ RestIdle

SpecPhoneme == InitPhoneme /\ [][NextPhoneme]_vars

(***************************************************************************)
(* A sentiment produced from one set of features.                          *)
(***************************************************************************)
InitSentiment ==
    /\ InitHook
    /\ audioData = <<>>
    /\ PitchIdle
    /\ NoiseIdle
    /\ VolumeIdle
    /\ AnalysisIdle
    /\ PhonemeIdle
    /\ EffectsIdle
    /\ HeapIdle
    /\ PlaybackIdle
    /\ InitSentimentCall

NoSentimentChange ==
    UNCHANGED <<hookVars, audioData, pitchVars, noiseVars, volumeVars,
                analysisVars, phonemeVars, effectsVars, heapVars, playbackVars>>

NextSentiment ==
    \/ ScoreEmotion /\ NoSentimentChange
    \/ PredictSentimentReturn /\ NoSentimentChange
    \/ AnalyzeSentimentReturns /\ NoSentimentChange
    \/ AnalyzeSentimentFallsBack /\ NoSentimentChange
    \/ AnalyzeAudioSentiment /\ NoSentimentChange

SpecSentiment == InitSentiment /\ [][NextSentiment]_vars

(***************************************************************************)
(* applyEffects run once on a decoded file.                                *)
(***************************************************************************)
InitEffects ==
    /\ InitHook
    /\ audioData = <<>>
    /\ PitchIdle
    /\ NoiseIdle
    /\ VolumeIdle
    /\ AnalysisIdle
    /\ PhonemeIdle
    /\ SentimentIdle
    /\ HeapIdle
    /\ PlaybackIdle
    /\ InitEffectsCall

EffectsRestIdle ==
    UNCHANGED <<hookVars, audioData, pitchVars, noiseVars, volumeVars,
                analysisVars, phonemeVars, sentimentVars, heapVars,
                playbackVars>>

NextEffects ==
    \/ NoiseStage /\ EffectsRestIdle
    \/ PitchStage /\ EffectsRestIdle
    \/ PitchStageThrows /\ EffectsRestIdle
    \/ VolumeStage /\ EffectsRestIdle
    \/ StoreNull /\ EffectsRestIdle
    \/ StoreBlob /\ EffectsRestIdle
    \/ CreateBufferThrows /\ EffectsRestIdle

SpecEffects == InitEffects /\ [][NextEffects]_vars

(***************************************************************************)
(* The methods of AudioProcessor called one after another on the arrays a  *)
(* caller holds.                                                           *)
(***************************************************************************)
InitHeapOnly ==
    /\ InitHook
    /\ audioData = <<>>
    /\ PitchIdle
    /\ NoiseIdle
    /\ VolumeIdle
    /\ AnalysisIdle
    /\ PhonemeIdle
    /\ SentimentIdle
    /\ EffectsIdle
    /\ PlaybackIdle
    /\ InitHeap

HeapRestIdle ==
    UNCHANGED <<hookVars, audioData, pitchVars, noiseVars, volumeVars,
                analysisVars, phonemeVars, sentimentVars, effectsVars,
                playbackVars>>

NextHeap ==
    \/ \E given \in held, a \in {50, 100} : ReduceNoiseOn(given, a) /\ HeapRestIdle
    \/ \E given \in held, g \in {5, 20} : AdjustVolumeOn(given, g) /\ HeapRestIdle
    \/ \E given \in held, s \in {0, 7, -1} : PitchShiftBegin(given, s) /\ HeapRestIdle
    \/ PitchShiftEnd /\ HeapRestIdle
    \/ PitchShiftFails /\ HeapRestIdle
    \/ \E method \in AnalysisMethods, given \in held : AnalysisOn(method, given) /\ HeapRestIdle

SpecHeap == InitHeapOnly /\ [][NextHeap]_vars

(***************************************************************************)
(* togglePlayback under clicks, decode completions and 'ended' events.     *)
(***************************************************************************)
InitPlaybackOnly ==
    /\ InitHook
    /\ audioData = <<>>
    /\ PitchIdle
    /\ NoiseIdle
    /\ VolumeIdle
    /\ AnalysisIdle
    /\ PhonemeIdle
    /\ SentimentIdle
    /\ EffectsIdle
    /\ HeapIdle
    /\ InitPlayback

PlaybackRestIdle ==
    UNCHANGED <<hookVars, audioData, pitchVars, noiseVars, volumeVars,
                analysisVars, phonemeVars, sentimentVars, effectsVars,
                heapVars>>

NextPlayback ==
    \/ TogglePlayback /\ PlaybackRestIdle
    \/ PlaybackDecoded /\ PlaybackRestIdle
    \/ PlaybackDecodeFails /\ PlaybackRestIdle
    \/ \E n \in DOMAIN nodes : NodeEnds(n) /\ PlaybackRestIdle
    \/ \E n \in DOMAIN nodes : StoppedNodeEnded(n) /\ PlaybackRestIdle

SpecPlayback == InitPlaybackOnly /\ [][NextPlayback]_vars

====
